---- MODULE Spec2Model ----
(***************************************************************************)
(* Page reconciliation (src/btree/rec_write.c): the split engine, the page *)
(* writers, the wrap-up step and the overflow tracker, as a state machine. *)
(*                                                                         *)
(* Sizes are scaled down: a page header is 2 bytes, a packed cell header 1 *)
(* byte, an (addr,size) pair 1 byte.  The working buffer r->dsk is kept as *)
(* the sequence of bytes that follow the page header; byte <<n, j>> is the *)
(* j-th byte of the n-th cell the writer copied to the page.               *)
(***************************************************************************)
EXTENDS Integers, Sequences, FiniteSets, TLC

VARIABLES
    btree,      \* the tree handle (session->btree): its configuration, and
                \* its data handle with the sessions that ask for it
    page,       \* the in-memory page being reconciled (WT_PAGE + modify)
    track,      \* page->modify->track[0 .. track_next-1]
    r,          \* the WT_RECONCILE structure cached on the handle
    buf,        \* r->dsk: the bytes after the page header
    blocks,     \* the block manager: every block ever written
    cells,      \* history: the cells copied to the page in this run
    freed,      \* the block manager: every (addr) passed to block_free
    asserts,    \* history: the diagnostic assertions that failed
    pc,         \* where __wt_rec_write is
    w,          \* the page writer's local variables
    lim         \* the sizes of the inputs drawn in this behaviour

vars == <<btree, page, track, r, buf, blocks, cells, freed, asserts, pc, w, lim>>

(***************************************************************************)
(* Bounds of the model.                                                    *)
(***************************************************************************)
MaxRecs == 2            \* reconciliations of the page in one behaviour
MaxRows == 5            \* entries of a page reconciled once
MaxRowsLife == 2        \* entries of a page reconciled again and again
MaxRowsOvfl == 3        \* the same, of a page whose keys are written as overflow keys
MaxRefs == 4            \* references of an internal page
MaxRefsLife == 3        \* the same, of a page reconciled again and again
MaxTouch == 1           \* modifications by other threads during one reconciliation
MaxSessions == 3        \* sessions that ask for the tree handle
MaxRefcnt == 3          \* references to the tree handle
MaxTake == 3            \* records a salvage cookie takes from a page
MaxCells == 4           \* cells of a variable-length column-store page
MaxCellsLife == 3       \* the same, of a page reconciled again and again
MaxAppends == 1         \* records of an append list

(***************************************************************************)
(* Program constants (scaled).                                             *)
(***************************************************************************)
WT_PAGE_DISK_SIZE == 2      \* bytes of the WT_PAGE_DISK header
WT_OFF_SIZE == 1            \* sizeof(WT_OFF)
WT_OFF_RECORD_SIZE == 2     \* sizeof(WT_OFF_RECORD)
WT_CELL_LEN == 1            \* bytes a packed cell header takes
WT_TRAILING_KEY_CELL == 1   \* sizeof(uint8_t)
WT_ADDR_INVALID == 0
UINT32_WRAP == 256          \* uint32_t arithmetic, scaled to 8 bits
UINT8_MAX == 255

U32(x) == x % UINT32_WRAP

Min(a, b) == IF a < b THEN a ELSE b

WT_ALIGN(n, v) == ((n + v - 1) \div v) * v

WT_SPLIT_PAGE_SIZE(pagesize, allocsize, pct) ==
    WT_ALIGN((pagesize * pct) \div 100, allocsize)

NoOff == [addr |-> WT_ADDR_INVALID, size |-> 0]

NoInfo == [ctype |-> "NONE", pfx |-> 0, data |-> <<>>, key |-> <<>>,
           rle |-> 0, off |-> NoOff, src |-> 0]

NoKV == [len |-> 0, cell_len |-> 0, size |-> 0, off |-> NoOff, info |-> NoInfo]

NewBnd == [start |-> 0, recno |-> 0, entries |-> 0, off |-> NoOff, key |-> <<>>]

IsRow(type) == type \in {"ROW_INT", "ROW_LEAF"}

(***************************************************************************)
(* Lexicographic order of keys (byte strings).                             *)
(***************************************************************************)
RECURSIVE KeyLess(_, _)
KeyLess(a, b) ==
    IF b = <<>> THEN FALSE
    ELSE IF a = <<>> THEN TRUE
    ELSE IF a[1] # b[1] THEN a[1] < b[1]
    ELSE KeyLess(Tail(a), Tail(b))

KeyLeq(a, b) == a = b \/ KeyLess(a, b)

(***************************************************************************)
(* The environment the reconciliation code works on, passed through the    *)
(* operators below: e.r, e.buf, e.blocks, e.track, e.cells.                *)
(***************************************************************************)
Env == [r |-> r, buf |-> buf, blocks |-> blocks, track |-> track,
        cells |-> cells, asserts |-> asserts]

SetEnv(e) ==
    /\ r' = e.r
    /\ buf' = e.buf
    /\ blocks' = e.blocks
    /\ track' = e.track
    /\ cells' = e.cells
    /\ asserts' = e.asserts

\* WT_ASSERT / WT_ASSERT_RET: a failed assertion is recorded.
WtAssert(e, ok, name) ==
    IF ok THEN e ELSE [e EXCEPT !.asserts = @ \cup {name}]

\* bnd[i], zero-based as in the code.
Bnd(rr, i) == rr.bnd[i + 1]

\* __rec_split_bnd_grow: room for slot bnd_next + 1.
RecSplitBndGrow(rr) ==
    IF Len(rr.bnd) < rr.bnd_next + 2
    THEN [rr EXCEPT !.bnd = @ \o [i \in 1..(rr.bnd_next + 2 - Len(@)) |-> NewBnd]]
    ELSE rr

\* __wt_rec_track
RecTrack(e, type, ref, addr, size) ==
    [e EXCEPT !.track = Append(@, [type |-> type, ref |-> ref,
                                   addr |-> addr, size |-> size])]

\* __wt_block_write: a new block; returns its (addr, size) as the last block.
BlockWrite(e, blk) ==
    [e EXCEPT !.blocks = Append(@, blk @@ [addr |-> Len(e.blocks) + 1])]

LastOff(e) == [addr |-> Len(e.blocks), size |-> e.blocks[Len(e.blocks)].size]

\* __rec_incr
RecIncr(e, v, size) ==
    [WtAssert(e, e.r.space_avail >= size /\ e.r.first_free + size <= e.r.page_size,
              "rec_incr")
       EXCEPT !.r.entries = @ + v,
              !.r.space_avail = U32(@ - size),
              !.r.first_free = @ + size]

\* __rec_copy_incr: the cell's bytes go to first_free.
RecCopyIncr(e, kv) ==
    LET n == Len(e.cells) + 1
        e1 == [e EXCEPT
                 !.buf = SubSeq(@, 1, e.r.first_free - WT_PAGE_DISK_SIZE)
                           \o [j \in 1..kv.len |-> <<n, j>>],
                 !.cells = Append(@, kv.info @@ [len |-> kv.len,
                                                 recno |-> e.r.recno])]
    IN RecIncr(e1, 1, kv.len)

\* __rec_key_state_update
RecKeyStateUpdate(rr, ovfl_key, bt) ==
    IF ovfl_key
    THEN [rr EXCEPT !.key_sfx_compress = FALSE]
    ELSE [rr EXCEPT !.cur = rr.last, !.last = rr.cur,
                    !.key_pfx_compress = bt.key_pfx_compress_conf,
                    !.key_sfx_compress = bt.key_sfx_compress_conf]

\* The split size __rec_split_init picks.
SplitSize(type, max, bt) ==
    IF type = "COL_FIX" THEN max
    ELSE WT_SPLIT_PAGE_SIZE(max, bt.allocsize, bt.split_pct)

\* __rec_split_init
RecSplitInit(e, type, recno, max, bt) ==
    LET ss == SplitSize(type, max, bt)
        r0 == RecSplitBndGrow([e.r EXCEPT !.bnd_next = 0])
    IN [e EXCEPT
          !.r = [r0 EXCEPT
                   !.key_pfx_compress = FALSE,
                   !.key_sfx_compress = FALSE,
                   !.type = type,
                   !.page_size = max,
                   !.split_size = ss,
                   !.bnd_state = IF max = ss THEN "SPLIT_TRACKING_OFF"
                                             ELSE "SPLIT_BOUNDARY",
                   !.bnd[1].recno = recno,
                   !.bnd[1].start = WT_PAGE_DISK_SIZE,
                   !.total_entries = 0,
                   !.recno = recno,
                   !.entries = 0,
                   !.first_free = WT_PAGE_DISK_SIZE,
                   !.space_avail = U32(ss - WT_PAGE_DISK_SIZE)],
          !.buf = <<>>,
          !.cells = <<>>]

\* __rec_split_write: the chunk body[1..size-header], with the row-store leaf
\* page's trailing key cell, goes to the block manager; bnd[bi].off is set.
TrailingCell == <<0, 0>>

RecSplitWrite(e0, bi, hrecno, hentries, body, size, memsize) ==
    LET leaf == e0.r.type = "ROW_LEAF"
        e == WtAssert(e0, ~leaf \/ size < memsize, "split_write")
        blk == [kind |-> "page", type |-> e.r.type, recno |-> hrecno,
                src |-> 0,
                entries |-> hentries,
                body |-> IF leaf THEN Append(body, TrailingCell) ELSE body,
                size |-> IF leaf THEN size + WT_TRAILING_KEY_CELL ELSE size,
                state |-> e.r.bnd_state, run |-> e.r.run]
        e1 == BlockWrite(e, blk)
    IN [e1 EXCEPT !.r.bnd[bi + 1].off = LastOff(e1)]

\* The size of the promoted key after suffix compression of cur against last.
RECURSIVE SfxScan(_, _, _, _)
SfxScan(last, cur, cnt, len) ==
    IF cnt > len THEN len + 1
    ELSE IF last[cnt] # cur[cnt] THEN cnt
    ELSE SfxScan(last, cur, cnt + 1, len)

SfxSizeShort(last, cur) == SfxScan(last, cur, 1, Min(Len(last), Len(cur))) - 1

SfxSize(last, cur) == SfxScan(last, cur, 1, Min(Len(last), Len(cur)))

\* The promoted key is never shortened.
PromoteSizeFull(rr) == Len(rr.cur)

\* The size of the key __rec_split_row_promote copies out of r->cur.
PromoteSize(rr) ==
    IF rr.type = "ROW_LEAF" /\ rr.key_sfx_compress
    THEN SfxSize(rr.last, rr.cur)
    ELSE Len(rr.cur)

\* __wt_cell_unpack_copy of the first cell of the page being built: the bytes
\* the key cell holds (an overflow key's bytes are read from its block).
FirstKeyOnPage(e) ==
    LET c == e.cells[e.buf[1][1]]
    IN IF c.ctype = "KEY_OVFL" THEN c.key ELSE c.data

\* __rec_split_row_promote
RecSplitRowPromote(e) ==
    LET e1 == IF e.r.bnd_next = 1
              THEN [e EXCEPT !.r.bnd[1].key = FirstKeyOnPage(e)]
              ELSE e
    IN [e1 EXCEPT !.r.bnd[e.r.bnd_next + 1].key =
                      SubSeq(e.r.cur, 1, PromoteSize(e.r))]

\* The bytes of the working buffer from offset a (inclusive) to b (exclusive).
BufBytes(e, a, b) ==
    SubSeq(e.buf, a - WT_PAGE_DISK_SIZE + 1, b - WT_PAGE_DISK_SIZE)

\* __rec_split_fixup: the loop writing chunks i .. bnd_next-1.
RECURSIVE FixupWrite(_, _)
FixupWrite(e, i) ==
    IF i >= e.r.bnd_next THEN e
    ELSE LET b == Bnd(e.r, i)
             len == Bnd(e.r, i + 1).start - b.start
         IN FixupWrite(
               RecSplitWrite(e, i, b.recno, b.entries,
                             BufBytes(e, b.start, b.start + len),
                             WT_PAGE_DISK_SIZE + len, e.r.split_size),
               i + 1)

\* The remnant __rec_split_fixup moves to the start of the working buffer.
FixupRemnantAll(e) == e.buf

FixupRemnant(e) ==
    BufBytes(e, Bnd(e.r, e.r.bnd_next).start, e.r.first_free)

\* __rec_split_fixup
RecSplitFixup(e) ==
    LET e1 == FixupWrite(e, 0)
        rem == FixupRemnant(e1)
        len == Len(rem)
    IN [WtAssert(e1, len < e.r.split_size - WT_PAGE_DISK_SIZE, "split_fixup")
          EXCEPT
          !.buf = rem,
          !.r.entries = U32(@ - e.r.total_entries),
          !.r.first_free = WT_PAGE_DISK_SIZE + len,
          !.r.space_avail = U32((e.r.split_size - WT_PAGE_DISK_SIZE) - len)]

\* The space left when no further split-size chunk fits the maximum page.
MaxSpaceAvailWhole(rr, current_len) == U32(rr.page_size - WT_PAGE_DISK_SIZE)

MaxSpaceAvail(rr, current_len) ==
    U32((rr.page_size - WT_PAGE_DISK_SIZE) - current_len)

\* The entries of the chunk a boundary closes.
ChunkEntriesAll(rr) == rr.entries

ChunkEntries(rr) == U32(rr.entries - rr.total_entries)

\* __rec_split, case SPLIT_BOUNDARY
RecSplitBoundary(e) ==
    LET r0 == RecSplitBndGrow(e.r)
        i == r0.bnd_next
        r1 == [r0 EXCEPT
                 !.bnd_next = i + 1,
                 !.bnd[i + 1].entries = ChunkEntries(r0),
                 !.total_entries = r0.entries,
                 !.bnd[i + 2].recno = r0.recno,
                 !.bnd[i + 2].start = r0.first_free]
        e1 == IF IsRow(r1.type) THEN RecSplitRowPromote([e EXCEPT !.r = r1])
                                ELSE [e EXCEPT !.r = r1]
        current_len == e1.r.first_free
    IN [e1 EXCEPT
          !.r.bnd[i + 2].entries = 0,
          !.r.space_avail =
               IF current_len + e1.r.split_size <= e1.r.page_size
               THEN U32(e1.r.split_size - WT_PAGE_DISK_SIZE)
               ELSE MaxSpaceAvail(e1.r, current_len),
          !.r.bnd_state =
               IF current_len + e1.r.split_size <= e1.r.page_size
               THEN "SPLIT_BOUNDARY" ELSE "SPLIT_MAX"]

\* The state stays SPLIT_MAX after the fix-up.
RecSplitMaxStay(e) == RecSplitFixup(e)

\* __rec_split, case SPLIT_MAX
RecSplitMax(e) ==
    [RecSplitFixup(e) EXCEPT !.r.bnd_state = "SPLIT_TRACKING_OFF"]

\* __rec_split, case SPLIT_TRACKING_OFF
RecSplitTrackingOff(e) ==
    LET r0 == RecSplitBndGrow(e.r)
        i == r0.bnd_next
        e0 == [e EXCEPT !.r = [r0 EXCEPT !.bnd_next = i + 1]]
        e1 == RecSplitWrite(e0, i, Bnd(r0, i).recno, r0.entries,
                            BufBytes(e0, WT_PAGE_DISK_SIZE, r0.first_free),
                            r0.first_free, r0.page_size)
        e2 == [e1 EXCEPT !.r.bnd[i + 2].recno = r0.recno]
        e3 == IF IsRow(r0.type) THEN RecSplitRowPromote(e2) ELSE e2
    IN [e3 EXCEPT
          !.r.bnd[i + 2].entries = 0,
          !.r.entries = 0,
          !.r.first_free = WT_PAGE_DISK_SIZE,
          !.r.space_avail = U32(e.r.split_size - WT_PAGE_DISK_SIZE)]

\* Once boundaries are no longer tracked the buffer is written twice, the
\* second time with no entry in it.
RecSplitTwice(e) ==
    CASE e.r.bnd_state = "SPLIT_BOUNDARY" -> RecSplitBoundary(e)
      [] e.r.bnd_state = "SPLIT_MAX" -> RecSplitMax(e)
      [] OTHER -> RecSplitTrackingOff(RecSplitTrackingOff(e))

\* __rec_split
RecSplit(e) ==
    CASE e.r.bnd_state = "SPLIT_BOUNDARY" -> RecSplitBoundary(e)
      [] e.r.bnd_state = "SPLIT_MAX" -> RecSplitMax(e)
      [] OTHER -> RecSplitTrackingOff(e)

\* __rec_split_finish
RecSplitFinish(e) ==
    IF e.r.entries = 0 THEN WtAssert(e, e.r.bnd_next = 0, "split_finish")
    ELSE LET tracking_off == e.r.bnd_state = "SPLIT_TRACKING_OFF"
             r0 == IF tracking_off
                   THEN [RecSplitBndGrow(e.r) EXCEPT !.bnd_next = @ + 1]
                   ELSE [e.r EXCEPT !.bnd_next = 1,
                                    !.bnd[1].entries = e.r.entries]
             bi == r0.bnd_next - 1
         IN RecSplitWrite([e EXCEPT !.r = r0], bi, Bnd(r0, bi).recno,
                          r0.entries,
                          BufBytes(e, WT_PAGE_DISK_SIZE, r0.first_free),
                          r0.first_free, r0.page_size)

(***************************************************************************)
(* Building cells.                                                         *)
(***************************************************************************)

\* __rec_track_ovfl_active: the first tracked overflow record with this
\* reference, or 0.  A NULL reference (0) is never looked up.
RECURSIVE TrackFind(_, _, _)
TrackFind(t, ref, i) ==
    IF i > Len(t) THEN 0
    ELSE IF t[i].type \in {"OVFL", "OVFL_DISCARD"} /\ t[i].ref = ref THEN i
    ELSE TrackFind(t, ref, i + 1)

RecTrackOvflActive(e, orig_data) ==
    IF orig_data = 0 THEN 0 ELSE TrackFind(e.track, orig_data, 1)

\* __rec_cell_build_ovfl on r->k (slot "k") or r->v (slot "v"): the item's
\* bytes are e.r[slot].info.data.
RecCellBuildOvfl(e, orig_data, slot, type, rle) ==
    LET kv == e.r[slot]
        hit == RecTrackOvflActive(e, orig_data)
        e1 == IF hit # 0
              THEN [WtAssert(e, e.track[hit].type # "OVFL", "track_ovfl_active")
                      EXCEPT !.track[hit].type = "OVFL"]
              ELSE LET e2 == BlockWrite(e,
                                 [kind |-> "ovfl", type |-> "OVFL", recno |-> 0,
                                  src |-> 0,
                                  entries |-> Len(kv.info.data),
                                  body |-> kv.info.data,
                                  size |-> WT_PAGE_DISK_SIZE + Len(kv.info.data),
                                  state |-> e.r.bnd_state, run |-> e.r.run])
                   IN RecTrack(e2, "OVFL", orig_data,
                               LastOff(e2).addr, LastOff(e2).size)
        off == IF hit # 0
               THEN [addr |-> e.track[hit].addr, size |-> e.track[hit].size]
               ELSE LastOff(e1)
    IN [e1 EXCEPT !.r[slot] =
           [len |-> WT_CELL_LEN + WT_OFF_SIZE, cell_len |-> WT_CELL_LEN,
            size |-> WT_OFF_SIZE, off |-> off,
            info |-> [kv.info EXCEPT !.ctype = type, !.rle = rle, !.off = off]]]

\* The loop of __rec_cell_build_key over the bytes of the two keys, from
\* pfx on: the first index at which they differ, pfx_max if there is none.
PfxScan(a, b, pfx, pfx_max) ==
    LET diff == {p \in pfx..(pfx_max - 1) : a[p + 1] # b[p + 1]}
    IN IF pfx >= pfx_max THEN pfx
       ELSE IF diff = {} THEN pfx_max
       ELSE CHOOSE p \in diff : \A q \in diff : p <= q

\* The comparison is not limited to UINT8_MAX bytes.
PfxLenAll(data, last) == PfxScan(data, last, 0, Min(Len(data), Len(last)))

\* The prefix __rec_cell_build_key compresses out of a key.
PfxLen(data, last) ==
    PfxScan(data, last, 0, Min(UINT8_MAX, Min(Len(data), Len(last))))

\* __rec_cell_build_key: data is the key (isnull: the caller passed NULL and
\* the full key saved in r->cur is used).  The result is in r->k; the key is
\* an overflow key iff the cell built is a KEY_OVFL cell.
RECURSIVE RecCellBuildKey(_, _, _, _, _)
RecCellBuildKey(e, data, isnull, is_internal, bt) ==
    LET pfx == IF isnull \/ ~e.r.key_pfx_compress THEN 0
               ELSE PfxLen(data, e.r.last)
        full == IF isnull THEN e.r.cur ELSE data
        kbuf == IF isnull THEN e.r.cur ELSE SubSeq(data, pfx + 1, Len(data))
        e1 == [e EXCEPT !.r.cur = full,
                        !.r.k = [len |-> WT_CELL_LEN + Len(kbuf),
                                 cell_len |-> WT_CELL_LEN,
                                 size |-> Len(kbuf), off |-> @.off,
                                 info |-> [ctype |-> "KEY", pfx |-> pfx,
                                           data |-> kbuf, key |-> full,
                                           rle |-> 0, off |-> NoOff,
                                           src |-> 0]]]
    IN IF Len(kbuf) > (IF is_internal THEN bt.maxintlitem ELSE bt.maxleafitem)
       THEN IF pfx = 0
            THEN RecCellBuildOvfl(e1, 0, "k", "KEY_OVFL", 0)
            ELSE RecCellBuildKey(e1, <<>>, TRUE, is_internal, bt)
       ELSE e1

IsOvflKey(e) == e.r.k.info.ctype = "KEY_OVFL"

\* __rec_cell_build_val: data is the value's bytes, ref the address of the
\* source value (WT_UPDATE_DATA(upd), or the buffer the caller passes).
RecCellBuildVal(e, data, ref, rle, bt) ==
    LET e1 == [e EXCEPT !.r.v = [len |-> WT_CELL_LEN + Len(data),
                                 cell_len |-> WT_CELL_LEN,
                                 size |-> Len(data), off |-> @.off,
                                 info |-> [ctype |-> "VALUE", pfx |-> 0,
                                           data |-> data, key |-> <<>>,
                                           rle |-> rle, off |-> NoOff,
                                           src |-> 0]]]
    IN IF Len(data) # 0 /\ Len(data) > bt.maxleafitem
       THEN RecCellBuildOvfl(e1, ref, "v", "VALUE_OVFL", rle)
       ELSE e1

\* The value built by the step from e0 to e1 came from the source value src
\* (the identity of the WT_UPDATE or of the cell of the disk image): the cell
\* built and the overflow block written for it, if one was, remember it.
ValueSrc(e0, e1, src) ==
    [e1 EXCEPT !.r.v.info.src = src,
               !.blocks = IF Len(e1.blocks) > Len(e0.blocks)
                          THEN [@ EXCEPT ![Len(@)].src = src] ELSE @]

\* A cell copied verbatim from the original disk image (cell_len 0).
RawKV(len, ctype, key, rle, off) ==
    [len |-> len, cell_len |-> 0, size |-> len, off |-> NoOff,
     info |-> [ctype |-> ctype, pfx |-> 0, data |-> <<>>, key |-> key,
               rle |-> rle, off |-> off, src |-> 0]]

\* __rec_track_cell
RecTrackCell(e, ovfl, off) ==
    IF ovfl THEN RecTrack(e, "BLOCK", 0, off.addr, off.size) ELSE e

(***************************************************************************)
(* The page.                                                               *)
(***************************************************************************)

\* The blocks of the original disk image: the page's own block and the
\* overflow blocks its cells reference.
OrigPageOff == [addr |-> 100, size |-> 1]
OrigOvflOff(n) == [addr |-> 100 + n, size |-> 1]

\* The keys of the rows of a row-store page, in the tree's order.
KeyOf(i) ==
    CASE i = 1 -> <<1>>
      [] i = 2 -> <<1, 1>>
      [] i = 3 -> <<1, 1, 2>>
      [] i = 4 -> <<1, 2>>
      [] i = 5 -> <<2>>
      [] i = 6 -> <<2, 1>>
      [] i = 7 -> <<2, 1, 1>>
      [] OTHER -> <<2, 2>> \o [j \in 1..(i - 8) |-> 2]

\* The bytes of a value of n bytes.
ValueOf(n) == [j \in 1..n |-> 7]

\* WT_ROW + WT_UPDATE / WT_INSERT: a row of a row-store leaf page.  src is
\* "disk" for a row of the disk image and "ins" for a row of an insert list;
\* kovfl: the key's cell on the disk image is an overflow cell; vcell: the
\* value cell on the disk image; upd: the row's most recent update.
RowShapes ==
    { [src |-> "disk", kovfl |-> FALSE, vcell |-> "inline", upd |-> "none", ulen |-> 0],
      [src |-> "disk", kovfl |-> TRUE,  vcell |-> "none",   upd |-> "none", ulen |-> 0],
      [src |-> "disk", kovfl |-> TRUE,  vcell |-> "inline", upd |-> "del",  ulen |-> 0],
      [src |-> "ins",  kovfl |-> FALSE, vcell |-> "none",   upd |-> "val",  ulen |-> 3] }

RowShapesLife ==
    { [src |-> "disk", kovfl |-> FALSE, vcell |-> "ovfl",   upd |-> "none", ulen |-> 0],
      [src |-> "disk", kovfl |-> TRUE,  vcell |-> "ovfl",   upd |-> "val",  ulen |-> 3],
      [src |-> "ins",  kovfl |-> FALSE, vcell |-> "none",   upd |-> "val",  ulen |-> 3],
      [src |-> "ins",  kovfl |-> FALSE, vcell |-> "none",   upd |-> "val",  ulen |-> 0] }

MakeRow(i, shape, uid, bt) ==
    [src |-> shape.src, key |-> KeyOf(i),
     kovfl |-> shape.kovfl /\ Len(KeyOf(i)) > bt.maxleafitem,
     koff |-> OrigOvflOff(2 * i),
     vcell |-> shape.vcell, voff |-> OrigOvflOff(2 * i + 1),
     upd |-> shape.upd, udata |-> ValueOf(shape.ulen), uid |-> uid]

\* r->merge_ref: NULL, or the WT_ROW_REF whose key corrects a merged page.
NoMergeRef == [set |-> FALSE, key |-> <<>>]

\* The locals of the page writers.  i: the entry of the page the walk is at;
\* stack: the merge pages being walked, innermost last, each with the
\* position in it.
\* WT_SALVAGE_COOKIE: on is FALSE when __wt_rec_write is passed NULL.
NoSalvage == [on |-> FALSE, missing |-> 0, skip |-> 0, take |-> 0,
              done |-> FALSE]

Salvage(missing, skip, take) ==
    [on |-> TRUE, missing |-> missing, skip |-> skip, take |-> take,
     done |-> FALSE]

\* The writer's local variables; salvage is the cookie, slvg the cookie as
\* it was passed to __wt_rec_write, hskip is set when the helper returned
\* without a cell, oob when an entry at or after page->entries was read.
InitW == [salvage |-> NoSalvage, slvg |-> NoSalvage, hskip |-> FALSE,
          oob |-> FALSE, page_take |-> 0, page_start |-> 0,
          i |-> 1, dsrc |-> 0, ovfl_key |-> FALSE, disk_ovfl |-> FALSE, stack |-> <<>>,
          off |-> NoOff, cref |-> <<>>,
          n |-> 0, nrepeat |-> 0, ins |-> <<>>, orig |-> <<>>,
          orig_deleted |-> FALSE, deleted |-> FALSE, last_deleted |-> FALSE,
          can_compare |-> FALSE, rle |-> 0, repeat_count |-> 0, data |-> <<>>,
          src_recno |-> 0, a |-> 1, ret |-> "none", hrle |-> 0,
          bits |-> <<>>, entry |-> 0, nrecs |-> 0]

NoSplit == [type |-> "NONE", entries |-> 0, recno |-> 0, flags |-> {}, refs |-> <<>>]

\* The length of a cell of the original disk image.
DiskValLen(row) ==
    CASE row.vcell = "none" -> 0
      [] row.vcell = "inline" -> WT_CELL_LEN + 1
      [] OTHER -> WT_CELL_LEN + WT_OFF_SIZE

DiskKeyLen == WT_CELL_LEN + WT_OFF_SIZE

(***************************************************************************)
(* __wt_rec_write: the start of a run.                                     *)
(***************************************************************************)

\* No overflow record is demoted.
RecTrackRestartKeep(t) == t

\* __rec_track_restart_ovfl
RecTrackRestartOvfl(t) ==
    [i \in 1..Len(t) |-> IF t[i].type = "OVFL"
                         THEN [t[i] EXCEPT !.type = "OVFL_DISCARD"] ELSE t[i]]

\* __wt_page_is_modified
PageIsModified(p) == p.write_gen # p.disk_gen

\* The maximum size of the page's type.
MaxPage(type, bt) ==
    IF type \in {"ROW_INT", "COL_INT"} THEN bt.maxintlpage ELSE bt.maxleafpage

\* The salvage cookies __wt_rec_write can be passed with a page: salvage
\* reconciles column-store leaf pages it read from disk, and of a
\* fixed-length page it skips and takes entries the page has.
Cookies(p) ==
    IF p.type \in {"COL_VAR", "COL_FIX"} /\ ~p.bulk /\ p.upds = <<>>
    THEN {sv \in lim.slvg :
            p.type = "COL_FIX" => sv.skip + sv.take <= Len(p.rows)}
    ELSE {NoSalvage}

\* The disk generation is the write generation plus one.
SetDiskGenNext(p) == [p EXCEPT !.disk_gen = p.write_gen + 1]

\* WT_ORDERED_READ(page->modify->disk_gen, page->modify->write_gen)
SetDiskGen(p) == [p EXCEPT !.disk_gen = p.write_gen]

\* __wt_rec_write up to the first entry of the page: the disk generation is
\* read, the overflow records are marked OVFL_DISCARD, the writer of the
\* page's type calls __rec_split_init.
Start ==
    /\ pc \in {"idle", "error"}
    /\ PageIsModified(page)
    /\ r.run < lim.recs
    /\ page' = SetDiskGen(page)
    /\ SetEnv([RecSplitInit(
                 [Env EXCEPT !.track = RecTrackRestartOvfl(track),
                             !.r.run = @ + 1],
                 page.type, IF IsRow(page.type) THEN 0 ELSE page.recno,
                 MaxPage(page.type, btree), btree)
               EXCEPT !.r.cell_zero = IF page.type = "ROW_INT" THEN TRUE ELSE @])
    /\ \E sv \in Cookies(page) :
         /\ pc' = IF page.type = "COL_VAR" /\ sv.missing # 0 THEN "missing"
                                                               ELSE "walk"
         /\ w' = [InitW EXCEPT
                    !.src_recno = IF IsRow(page.type) THEN 0 ELSE page.recno,
                    !.rle = IF page.bulk THEN 1 ELSE 0,
                    !.salvage = sv, !.slvg = sv,
                    !.page_take = IF sv.take = 0 THEN Len(page.rows)
                                                 ELSE sv.take,
                    !.page_start = sv.skip]
    /\ UNCHANGED <<btree, freed, lim>>

(***************************************************************************)
(* __rec_row_leaf and __rec_row_leaf_insert.                               *)
(***************************************************************************)

\* The rows the walk can find at position i: the row of the page, or, on a
\* page not walked that far before, any row the page can hold there.
RowsAt(i) ==
    IF i <= Len(page.rows) THEN {page.rows[i]}
    ELSE {MakeRow(i, shape, page.nuid, btree) : shape \in lim.shapes}

\* The value of a row of the disk image without an update: the value cell is
\* copied from the disk image.
RowLeafValDisk(e, row) ==
    [e EXCEPT !.r.v = [RawKV(DiskValLen(row),
                             IF row.vcell = "ovfl" THEN "VALUE_OVFL" ELSE "VALUE",
                             <<>>, 0,
                             IF row.vcell = "ovfl" THEN row.voff ELSE NoOff)
                         EXCEPT !.off = e.r.v.off]]

\* The value of an updated row of the disk image.
RowLeafValUpd(e, row, bt) ==
    IF Len(row.udata) = 0
    THEN [e EXCEPT !.r.v.cell_len = 0, !.r.v.len = 0, !.r.v.size = 0]
    ELSE ValueSrc(e, RecCellBuildVal(e, row.udata, row.uid, 0, bt), row.uid)

\* The value of a row of an insert list.
RowLeafValIns(e, row, bt) ==
    IF Len(row.udata) = 0
    THEN [e EXCEPT !.r.v.len = 0]
    ELSE ValueSrc(e, RecCellBuildVal(e, row.udata, row.uid, 0, bt), row.uid)

\* The key of a row of the disk image.
RowLeafKeyDisk(e, row, bt) ==
    IF row.kovfl
    THEN [e EXCEPT !.r.k = [RawKV(DiskKeyLen, "KEY_OVFL", row.key, 0, row.koff)
                              EXCEPT !.off = e.r.k.off]]
    ELSE RecCellBuildKey(e, row.key, FALSE, FALSE, bt)

\* One entry of the page up to the "Boundary, split or write" loop.
RowLeafEntry ==
    /\ pc = "walk"
    /\ page.type = "ROW_LEAF"
    /\ w.i <= Len(page.rows) \/ (page.open /\ Len(page.rows) < lim.rows)
    /\ \E row \in RowsAt(w.i) :
         LET deleted == row.upd = "del"
             e1 == IF row.src = "disk" /\ row.upd # "none"
                   THEN RecTrackCell(Env, row.vcell = "ovfl", row.voff)
                   ELSE Env
             e2 == IF row.src = "disk" /\ deleted
                   THEN RecTrackCell(e1, row.kovfl, row.koff)
                   ELSE e1
             e3 == CASE row.src = "ins" -> RowLeafValIns(e2, row, btree)
                     [] row.upd = "none" -> RowLeafValDisk(e2, row)
                     [] OTHER -> RowLeafValUpd(e2, row, btree)
             e4 == IF row.src = "ins"
                   THEN RecCellBuildKey(e3, row.key, FALSE, FALSE, btree)
                   ELSE RowLeafKeyDisk(e3, row, btree)
         IN /\ page' = IF w.i <= Len(page.rows) THEN page
                       ELSE [page EXCEPT !.rows = Append(@, row),
                                         !.nuid = @ + 1]
            /\ IF deleted
               THEN /\ SetEnv(e2)
                    /\ pc' = "walk"
                    /\ w' = [w EXCEPT !.i = @ + 1]
               ELSE /\ SetEnv(e4)
                    /\ pc' = "fit"
                    /\ w' = [w EXCEPT
                               !.ovfl_key = IF row.src = "disk" /\ row.kovfl
                                            THEN TRUE ELSE IsOvflKey(e4),
                               !.disk_ovfl = row.src = "disk" /\ row.kovfl]
    /\ UNCHANGED <<btree, freed, lim>>

\* Prefix compression stays as it was after a split.
SplitPfxKeep(e) == e

\* "r->key_pfx_compress = 0" after __rec_split in the loops of the row-store
\* writers: no prefix compression until a full key is written to the page.
SplitPfxOff(e) == [e EXCEPT !.r.key_pfx_compress = FALSE]

\* The pair fits, no room kept for the trailing key cell.
RowLeafFitsNoTrailer(rr) == ~(U32(rr.k.len + rr.v.len) > rr.space_avail)

\* while (key->len + val->len + WT_TRAILING_KEY_CELL > r->space_avail)
RowLeafFits(rr) ==
    ~(U32(rr.k.len + rr.v.len + WT_TRAILING_KEY_CELL) > rr.space_avail)

\* One turn of the loop: the pair does not fit.
RowLeafSplit ==
    /\ pc = "fit"
    /\ page.type = "ROW_LEAF"
    /\ ~RowLeafFits(r)
    /\ LET e1 == IF w.ovfl_key /\ w.disk_ovfl
                 THEN [Env EXCEPT !.r.cur = page.rows[w.i].key]
                 ELSE Env
           e2 == SplitPfxOff(RecSplit(e1))
           e3 == IF ~w.ovfl_key
                 THEN RecCellBuildKey(e2, <<>>, TRUE, FALSE, btree)
                 ELSE e2
       IN /\ SetEnv(e3)
          /\ w' = [w EXCEPT !.ovfl_key = IF ~w.ovfl_key THEN IsOvflKey(e3)
                                                       ELSE TRUE]
    /\ UNCHANGED <<btree, page, freed, pc, lim>>

\* The pair fits: it is copied to the page.
RowLeafCopy ==
    /\ pc = "fit"
    /\ page.type = "ROW_LEAF"
    /\ RowLeafFits(r)
    /\ LET e1 == RecCopyIncr(Env, r.k)
           e2 == IF r.v.len # 0 THEN RecCopyIncr(e1, r.v) ELSE e1
       IN SetEnv([e2 EXCEPT !.r = RecKeyStateUpdate(e2.r, w.ovfl_key, btree)])
    /\ pc' = "walk"
    /\ w' = [w EXCEPT !.i = @ + 1]
    /\ UNCHANGED <<btree, page, freed, lim>>

\* The walk is over: __rec_split_finish.
RowLeafFinish ==
    /\ pc = "walk"
    /\ page.type = "ROW_LEAF"
    /\ w.i > Len(page.rows)
    /\ SetEnv(RecSplitFinish(Env))
    /\ page' = [page EXCEPT !.open = FALSE]
    /\ pc' = "wrapup"
    /\ UNCHANGED <<btree, freed, w, lim>>

(***************************************************************************)
(* __rec_row_int and __rec_row_merge.                                      *)
(***************************************************************************)

\* WT_ROW_REF and the child page it references.  kcell: the key has a cell
\* on the disk image (ikey->cell_offset != 0: an overflow key); state: the
\* WT_REF state; child: the in-memory child (flags, modify != NULL, the
\* modify->u.write_off, and the references of the split page: the page's own
\* when modify is NULL, modify->u.write_split's otherwise).
NoChild == [flags |-> {}, modify |-> FALSE, write_off |-> NoOff, refs |-> <<>>]

ReplOff(k) == [addr |-> 200 + k, size |-> 1]

DiskRef(k, kcell, bt) ==
    [key |-> KeyOf(k), kcell |-> kcell /\ Len(KeyOf(k)) > bt.maxintlitem,
     koff |-> OrigOvflOff(2 * k + 1), state |-> "DISK",
     off |-> OrigOvflOff(2 * k), recno |-> k, child |-> NoChild, nkeys |-> 1]

MemRef(k, kcell, flags, refs, bt) ==
    [DiskRef(k, kcell, bt) EXCEPT
        !.state = "MEM",
        !.child = [flags |-> flags, modify |-> TRUE,
                   write_off |-> IF flags = {"REC_REPLACE"} THEN ReplOff(k)
                                                           ELSE NoOff,
                   refs |-> refs],
        !.nkeys = 1 + Len(refs)]

\* The references a row-store internal page can hold at a position, k being
\* the first key not used by the references before it.
RefShapes == {"disk", "diskovfl", "mem", "empty", "replace", "split"}

\* A child in SPLIT state whose split page has a child that was read,
\* modified and reconciled, and is in SPLIT state itself: the second
\* reference of the split page.
SplitNest(k, bt) ==
    [MemRef(k, TRUE, {"REC_SPLIT"},
            <<DiskRef(k + 1, FALSE, bt),
              MemRef(k + 2, FALSE, {"REC_SPLIT"},
                     <<DiskRef(k + 3, FALSE, bt), DiskRef(k + 4, FALSE, bt)>>,
                     bt)>>, bt)
       EXCEPT !.nkeys = 5]

\* A child in SPLIT state, the children of its split page all emptied since.
SplitEmpty(k, bt) ==
    MemRef(k, TRUE, {"REC_SPLIT"},
           <<MemRef(k + 1, FALSE, {"REC_EMPTY"}, <<>>, bt),
             MemRef(k + 2, FALSE, {"REC_EMPTY"}, <<>>, bt)>>, bt)

\* The references of the pages of SpecMerge.
RefShapesMerge == {"disk", "split", "splitnest", "splitempty"}

MakeRef(shape, k, bt) ==
    CASE shape = "disk" -> DiskRef(k, FALSE, bt)
      [] shape = "diskovfl" -> DiskRef(k, TRUE, bt)
      [] shape = "mem" -> MemRef(k, FALSE, {}, <<>>, bt)
      [] shape = "empty" -> MemRef(k, TRUE, {"REC_EMPTY"}, <<>>, bt)
      [] shape = "replace" -> MemRef(k, FALSE, {"REC_REPLACE"}, <<>>, bt)
      [] shape = "splitnest" -> SplitNest(k, bt)
      [] shape = "splitempty" -> SplitEmpty(k, bt)
      [] OTHER -> MemRef(k, TRUE, {"REC_SPLIT"},
                         <<DiskRef(k + 1, FALSE, bt), DiskRef(k + 2, FALSE, bt)>>, bt)

RefsAt(i) ==
    IF i <= Len(page.rows) THEN {page.rows[i]}
    ELSE {MakeRef(shape, page.nuid, btree) : shape \in lim.refs}

\* The value cell of an internal page: a WT_OFF.
OffKV(off) ==
    [len |-> WT_CELL_LEN + WT_OFF_SIZE, cell_len |-> WT_CELL_LEN,
     size |-> WT_OFF_SIZE, off |-> off,
     info |-> [NoInfo EXCEPT !.ctype = "OFF", !.off = off]]

\* The (addr, size) a reference is written with.
RefOff(ref) ==
    IF ref.state # "DISK" /\ ref.child.flags = {"REC_REPLACE"}
    THEN ref.child.write_off ELSE ref.off

\* The key of an entry of __rec_row_int.
RowIntKey(e, ref, bt) ==
    IF ref.kcell
    THEN [e EXCEPT !.r.k = [RawKV(DiskKeyLen, "KEY_OVFL", ref.key, 0, ref.koff)
                              EXCEPT !.off = e.r.k.off],
                   !.r.cell_zero = FALSE]
    ELSE [RecCellBuildKey(e, IF e.r.cell_zero THEN SubSeq(ref.key, 1, 1)
                                              ELSE ref.key,
                          FALSE, TRUE, bt)
            EXCEPT !.r.cell_zero = FALSE]

\* Every entry of a merge page is built from its own key.
RowMergeKeyOwn(e, ref, bt) == RowIntKey(e, ref, bt)

\* The key of an entry of __rec_row_merge.
RowMergeKey(e, ref, bt) ==
    LET ikey == IF e.r.merge_ref.set THEN e.r.merge_ref.key ELSE ref.key
    IN [RecCellBuildKey([e EXCEPT !.r.merge_ref = NoMergeRef],
                        IF e.r.cell_zero THEN SubSeq(ikey, 1, 1) ELSE ikey,
                        FALSE, TRUE, bt)
          EXCEPT !.r.cell_zero = FALSE]

IsEmptyRef(ref) == ref.state # "DISK" /\ ref.child.flags = {"REC_EMPTY"}
IsSplitRef(ref) == ref.state # "DISK" /\ ref.child.flags = {"REC_SPLIT"}

\* One entry of the page being reconciled, up to the "Boundary, split or
\* write" loop.
RowIntEntry ==
    /\ pc = "walk"
    /\ page.type = "ROW_INT"
    /\ w.stack = <<>>
    /\ w.i <= Len(page.rows) \/ (page.open /\ Len(page.rows) < lim.nrefs)
    /\ \E ref \in RefsAt(w.i) :
         /\ page' = IF w.i <= Len(page.rows) THEN page
                    ELSE [page EXCEPT !.rows = Append(@, ref),
                                      !.nuid = @ + ref.nkeys]
         /\ CASE IsEmptyRef(ref) ->
                   /\ SetEnv(RecTrackCell(Env, ref.kcell, ref.koff))
                   /\ pc' = "walk"
                   /\ w' = [w EXCEPT !.i = @ + 1]
              [] IsSplitRef(ref) ->
                   /\ SetEnv([Env EXCEPT !.r.merge_ref =
                                            [set |-> TRUE, key |-> ref.key]])
                   /\ pc' = "walk"
                   /\ w' = [w EXCEPT !.i = @ + 1,
                                     !.stack = <<[refs |-> ref.child.refs,
                                                  i |-> 1]>>]
              [] OTHER ->
                   LET e1 == RowIntKey([Env EXCEPT !.r.v = OffKV(RefOff(ref))],
                                       ref, btree)
                   IN /\ SetEnv(e1)
                      /\ pc' = "fit"
                      /\ w' = [w EXCEPT !.ovfl_key = ref.kcell \/ IsOvflKey(e1),
                                        !.disk_ovfl = ref.kcell]
    /\ UNCHANGED <<btree, freed, lim>>

\* The frame of the merge page being walked.
TopFrame == w.stack[Len(w.stack)]

\* One entry of a merge page.
RowMergeEntry ==
    /\ pc = "walk"
    /\ page.type = "ROW_INT"
    /\ w.stack # <<>>
    /\ TopFrame.i <= Len(TopFrame.refs)
    /\ LET ref == TopFrame.refs[TopFrame.i]
           n == Len(w.stack)
       IN CASE IsEmptyRef(ref) ->
                 /\ pc' = "walk"
                 /\ w' = [w EXCEPT !.stack[n].i = @ + 1]
                 /\ UNCHANGED <<r, buf, blocks, track, cells, asserts>>
            [] IsSplitRef(ref) ->
                 /\ pc' = "walk"
                 /\ w' = [w EXCEPT !.stack =
                             Append([w.stack EXCEPT ![n].i = @ + 1],
                                    [refs |-> ref.child.refs, i |-> 1])]
                 /\ UNCHANGED <<r, buf, blocks, track, cells, asserts>>
            [] OTHER ->
                 LET e1 == RowMergeKey([Env EXCEPT !.r.v = OffKV(RefOff(ref))],
                                       ref, btree)
                 IN /\ SetEnv(e1)
                    /\ pc' = "fit"
                    /\ w' = [w EXCEPT !.ovfl_key = IsOvflKey(e1),
                                      !.disk_ovfl = FALSE]
    /\ UNCHANGED <<btree, page, freed, lim>>

\* The walk of a merge page is over: __rec_row_merge returns.
RowMergeReturn ==
    /\ pc = "walk"
    /\ page.type = "ROW_INT"
    /\ w.stack # <<>>
    /\ TopFrame.i > Len(TopFrame.refs)
    /\ w' = [w EXCEPT !.stack = SubSeq(@, 1, Len(@) - 1)]
    /\ UNCHANGED <<btree, page, track, r, buf, blocks, cells, freed, asserts,
                   pc, lim>>

\* while (key->len + val->len > r->space_avail)
RowIntFits(rr) == ~(U32(rr.k.len + rr.v.len) > rr.space_avail)

\* The key of the entry the walk is at (__wt_cell_copy of its cell).
CurRefKey == page.rows[w.i].key

RowIntSplit ==
    /\ pc = "fit"
    /\ page.type = "ROW_INT"
    /\ ~RowIntFits(r)
    /\ LET e1 == IF w.ovfl_key /\ w.disk_ovfl
                 THEN [Env EXCEPT !.r.cur = CurRefKey]
                 ELSE Env
           e2 == SplitPfxOff(RecSplit(e1))
           e3 == IF ~w.ovfl_key
                 THEN RecCellBuildKey(e2, <<>>, TRUE, TRUE, btree)
                 ELSE e2
       IN /\ SetEnv(e3)
          /\ w' = [w EXCEPT !.ovfl_key = IF ~w.ovfl_key THEN IsOvflKey(e3)
                                                       ELSE TRUE]
    /\ UNCHANGED <<btree, page, freed, pc, lim>>

RowIntCopy ==
    /\ pc = "fit"
    /\ page.type = "ROW_INT"
    /\ RowIntFits(r)
    /\ LET e1 == RecCopyIncr(Env, r.k)
           e2 == RecCopyIncr(WtAssert(e1, r.v.off.addr # WT_ADDR_INVALID,
                                      "row_int_addr"), r.v)
       IN SetEnv([e2 EXCEPT !.r = RecKeyStateUpdate(e2.r, w.ovfl_key, btree)])
    /\ pc' = "walk"
    /\ w' = IF w.stack = <<>> THEN [w EXCEPT !.i = @ + 1]
            ELSE [w EXCEPT !.stack[Len(w.stack)].i = @ + 1]
    /\ UNCHANGED <<btree, page, freed, lim>>

RowIntFinish ==
    /\ pc = "walk"
    /\ page.type = "ROW_INT"
    /\ w.stack = <<>>
    /\ w.i > Len(page.rows)
    /\ SetEnv(RecSplitFinish(Env))
    /\ page' = [page EXCEPT !.open = FALSE]
    /\ pc' = "wrapup"
    /\ UNCHANGED <<btree, freed, w, lim>>

(***************************************************************************)
(* __rec_col_int and __rec_col_merge.                                      *)
(***************************************************************************)

\* WT_COL_REF and the child page it references; span: the records below it.
ColRef(n, span, state, flags, refs) ==
    [recno |-> n, span |-> span, state |-> state, off |-> OrigOvflOff(2 * n),
     child |-> [flags |-> flags, modify |-> TRUE,
                write_off |-> IF flags = {"REC_REPLACE"} THEN ReplOff(n)
                                                        ELSE NoOff,
                refs |-> refs]]

ColRefShapes == {"disk", "disk2", "mem", "replace", "split"}

MakeColRef(shape, n) ==
    CASE shape = "disk" -> ColRef(n, 1, "DISK", {}, <<>>)
      [] shape = "disk2" -> ColRef(n, 2, "DISK", {}, <<>>)
      [] shape = "mem" -> ColRef(n, 1, "MEM", {}, <<>>)
      [] shape = "replace" -> ColRef(n, 2, "MEM", {"REC_REPLACE"}, <<>>)
      [] OTHER -> ColRef(n, 3, "MEM", {"REC_SPLIT"},
                         <<ColRef(n, 1, "DISK", {}, <<>>),
                           ColRef(n + 1, 2, "MEM", {"REC_REPLACE"}, <<>>)>>)

\* The references the walk can find: those of the merge page being walked,
\* or those of the page being reconciled.
ColRefsAt ==
    IF w.stack # <<>> THEN {TopFrame.refs[TopFrame.i]}
    ELSE IF w.i <= Len(page.rows) THEN {page.rows[w.i]}
    ELSE {MakeColRef(shape, page.nuid) : shape \in lim.crefs}

\* The walk moves to the next reference of the page it is in.
NextRef(ww) ==
    IF ww.stack = <<>> THEN [ww EXCEPT !.i = @ + 1]
    ELSE [ww EXCEPT !.stack[Len(ww.stack)].i = @ + 1]

\* One entry of __rec_col_merge up to the "Boundary" loop.
ColMergeEntry ==
    /\ pc = "walk"
    /\ page.type = "COL_INT"
    /\ IF w.stack = <<>>
       THEN w.i <= Len(page.rows) \/ (page.open /\ Len(page.rows) < lim.nrefs)
       ELSE TopFrame.i <= Len(TopFrame.refs)
    /\ \E cref \in ColRefsAt :
         /\ page' = IF w.stack # <<>> \/ w.i <= Len(page.rows) THEN page
                    ELSE [page EXCEPT !.rows = Append(@, cref),
                                      !.nuid = @ + cref.span]
         /\ r' = [r EXCEPT !.recno = cref.recno]
         /\ CASE IsEmptyRef(cref) ->
                   /\ asserts' = asserts \cup {"col_merge_empty"}
                   /\ pc' = "walk"
                   /\ w' = NextRef(w)
              [] IsSplitRef(cref) ->
                   /\ asserts' = asserts
                   /\ pc' = "walk"
                   /\ w' = [NextRef(w) EXCEPT !.stack =
                              Append(@, [refs |-> cref.child.refs, i |-> 1])]
              [] OTHER ->
                   /\ asserts' = asserts
                   /\ pc' = "fit"
                   /\ w' = [w EXCEPT !.off = RefOff(cref), !.cref = cref]
    /\ UNCHANGED <<btree, track, buf, blocks, cells, freed, lim>>

\* __rec_col_merge returns to the walk of the referencing page.
ColMergeReturn ==
    /\ pc = "walk"
    /\ page.type = "COL_INT"
    /\ w.stack # <<>>
    /\ TopFrame.i > Len(TopFrame.refs)
    /\ w' = [w EXCEPT !.stack = SubSeq(@, 1, Len(@) - 1)]
    /\ UNCHANGED <<btree, page, track, r, buf, blocks, cells, freed, asserts,
                   pc, lim>>

\* while (sizeof(WT_OFF_RECORD) > r->space_avail)
ColIntSplit ==
    /\ pc = "fit"
    /\ page.type = "COL_INT"
    /\ WT_OFF_RECORD_SIZE > r.space_avail
    /\ SetEnv(RecSplit(Env))
    /\ UNCHANGED <<btree, page, freed, pc, w, lim>>

\* The WT_OFF_RECORD copied to the page; rle notes the records below the
\* reference.
OffRecordKV(off, recno, span) ==
    [len |-> WT_OFF_RECORD_SIZE, cell_len |-> 0, size |-> WT_OFF_RECORD_SIZE,
     off |-> off,
     info |-> [NoInfo EXCEPT !.ctype = "OFF_RECORD", !.off = off,
                             !.rle = span]]

ColIntCopy ==
    /\ pc = "fit"
    /\ page.type = "COL_INT"
    /\ ~(WT_OFF_RECORD_SIZE > r.space_avail)
    /\ SetEnv(RecCopyIncr(WtAssert(Env, w.cref.off.addr # WT_ADDR_INVALID,
                                   "col_merge_addr"),
                          OffRecordKV(w.off, w.cref.recno, w.cref.span)))
    /\ pc' = "walk"
    /\ w' = NextRef(w)
    /\ UNCHANGED <<btree, page, freed, lim>>

ColIntFinish ==
    /\ pc = "walk"
    /\ page.type = "COL_INT"
    /\ w.stack = <<>>
    /\ w.i > Len(page.rows)
    /\ SetEnv(RecSplitFinish(Env))
    /\ page' = [page EXCEPT !.open = FALSE]
    /\ pc' = "wrapup"
    /\ UNCHANGED <<btree, freed, w, lim>>

(***************************************************************************)
(* __rec_col_var, __rec_col_var_helper and __rec_col_var_bulk.             *)
(***************************************************************************)

\* __wt_buf_set(r->last, data, size): the buffer's memory grows when it is
\* too small, and growing may move it (moved); data points to the memory.
BufSetLast(rr, data, moved) ==
    LET lb == rr.lastbuf
        grows == Len(data) > lb.memsize
        fresh == grows /\ (moved \/ lb.mem = 0)
        mem == IF fresh THEN 1000 + lb.allocs ELSE lb.mem
    IN [rr EXCEPT !.last = data,
                  !.lastbuf = [ptr |-> mem, mem |-> mem, src |-> lb.src,
                               memsize |-> IF grows THEN Len(data) ELSE lb.memsize,
                               allocs |-> IF fresh THEN lb.allocs + 1
                                                   ELSE lb.allocs]]

\* Whether __wt_buf_set(r->last, data, size) can move the buffer.
Moves(rr, data) ==
    IF Len(data) > rr.lastbuf.memsize /\ rr.lastbuf.mem # 0
    THEN BOOLEAN ELSE {FALSE}

\* WT_COL: a cell of the disk image with its update list.  cell is "null"
\* (no cell), "val", "del" or "ovfl"; upds: the WT_INSERT list, by record.
ColCell(cell, data, rle, i, upds) ==
    [cell |-> cell, data |-> data, rle |-> rle, off |-> OrigOvflOff(2 * i),
     ptr |-> 500 + i, upds |-> upds]

Upd(recno, deleted, data, uid) ==
    [recno |-> recno, deleted |-> deleted, data |-> data, uid |-> uid]

CellShapes == {"a1", "a2u", "d2", "o1", "a1big"}
CellShapesLife == {"a1", "a2u", "a1big", "a1huge"}

\* The cell at position i of the page, its first record being record n.
MakeCell(shape, i, n) ==
    CASE shape = "a1" -> ColCell("val", <<1>>, 1, i, <<>>)
      [] shape = "a2u" -> ColCell("val", <<1>>, 2, i,
                                  <<Upd(n + 1, FALSE, <<2>>, 10 * i)>>)
      [] shape = "d2" -> ColCell("del", <<>>, 2, i, <<>>)
      [] shape = "a2" -> ColCell("val", <<i>>, 2, i, <<>>)
      [] shape = "o1" -> ColCell("ovfl", <<9, 9, 9>>, 1, i, <<>>)
      [] shape = "a1big" -> ColCell("val", <<1>>, 1, i,
                                    <<Upd(n, FALSE, <<8, 8, 8>>, 10 * i)>>)
      [] shape = "a1huge" -> ColCell("val", <<1>>, 1, i,
                                     <<Upd(n, FALSE, <<7, 7, 7, 7>>, 10 * i)>>)
      [] shape = "null" -> ColCell("null", <<>>, 1, i, <<>>)
      [] OTHER -> ColCell("ovfl", <<9, 9, 9>>, 2, i,
                          <<Upd(n, TRUE, <<>>, 10 * i)>>)

CellsAt(i) ==
    IF i <= Len(page.rows) THEN {page.rows[i]}
    ELSE {MakeCell(shape, i, w.src_recno) : shape \in lim.cshapes}

\* The length of a cell of the disk image of a column-store page.
ColCellLen(c) ==
    CASE c.cell = "del" -> WT_CELL_LEN
      [] c.cell = "ovfl" -> WT_CELL_LEN + WT_OFF_SIZE
      [] OTHER -> WT_CELL_LEN + Len(c.data)

\* __rec_col_var_helper up to the "Boundary" loop, after the adjustments
\* for salvage: the cell is built in r->v.  value is r->last.
ColVarHelper(e, deleted, raw, rle, bt) ==
    IF deleted
    THEN [e EXCEPT !.r.v = [len |-> WT_CELL_LEN, cell_len |-> WT_CELL_LEN,
                            size |-> 0, off |-> e.r.v.off,
                            info |-> [NoInfo EXCEPT !.ctype = "DEL",
                                                    !.rle = rle]]]
    ELSE IF raw.on
    THEN [e EXCEPT !.r.v = [RawKV(raw.len, "VALUE_OVFL", <<>>, rle, raw.off)
                              EXCEPT !.off = e.r.v.off]]
    ELSE ValueSrc(e, RecCellBuildVal(e, e.r.last, e.r.lastbuf.ptr, rle, bt),
                  e.r.lastbuf.src)

NoRaw == [on |-> FALSE, len |-> 0, off |-> NoOff]

\* __rec_col_var_helper, "if (salvage != NULL)": the records salvage
\* discards at the beginning and at the end of the page.  ret0: the
\* helper returns 0 at once; rle: the run length of the cell it writes;
\* sv: the cookie after the call.
SlvgHelper(sv, rle) ==
    IF ~sv.on THEN [ret0 |-> FALSE, rle |-> rle, sv |-> sv]
    ELSE IF sv.done THEN [ret0 |-> TRUE, rle |-> rle, sv |-> sv]
    ELSE IF sv.skip # 0 /\ rle <= sv.skip
    THEN [ret0 |-> TRUE, rle |-> rle, sv |-> [sv EXCEPT !.skip = @ - rle]]
    ELSE LET sv1 == [sv EXCEPT !.skip = 0]
             \* salvage->skip = 0; rle -= salvage->skip;
             rle1 == IF sv.skip # 0 THEN rle - sv1.skip ELSE rle
             take == IF sv1.take = 0 THEN 0
                     ELSE IF rle1 <= sv1.take THEN sv1.take - rle1 ELSE 0
             rle2 == IF sv1.take # 0 /\ ~(rle1 <= sv1.take) THEN sv1.take
                                                             ELSE rle1
         IN [ret0 |-> FALSE, rle |-> rle2,
             sv |-> [sv1 EXCEPT !.take = take,
                                !.done = sv1.take # 0 /\ take = 0]]

\* The call of the helper: the cell is built, the walk goes on at ret once
\* the cell is on the page.
\* __rec_col_var, "if (slvg_missing)": the records missing before the
\* page are written as one deleted cell; the helper is not passed the
\* cookie.
ColVarMissing ==
    /\ pc = "missing"
    /\ SetEnv(ColVarHelper(Env, TRUE, NoRaw, w.salvage.missing, btree))
    /\ pc' = "fit"
    /\ w' = [w EXCEPT !.ret = "missing", !.hrle = w.salvage.missing]
    /\ UNCHANGED <<btree, page, freed, lim>>

CallHelper(e, ww, deleted, raw, rle, ret) ==
    LET a == SlvgHelper(ww.salvage, rle)
    IN /\ SetEnv(IF a.ret0 THEN e
                 ELSE ColVarHelper(e, deleted, raw, a.rle, btree))
       /\ pc' = "fit"
       /\ w' = [ww EXCEPT !.ret = ret, !.hrle = IF a.ret0 THEN 0 ELSE a.rle,
                          !.hskip = a.ret0, !.salvage = a.sv]

\* The top of the loop over the cells of the page.
ColVarCell ==
    /\ pc = "walk"
    /\ page.type = "COL_VAR"
    /\ ~page.bulk
    /\ w.i <= Len(page.rows) \/ (page.open /\ Len(page.rows) < lim.ncells)
    /\ \E c \in CellsAt(w.i) :
         /\ page' = IF w.i <= Len(page.rows) THEN page
                    ELSE [page EXCEPT !.rows = Append(@, c)]
         /\ CASE c.cell = "null" ->
                   /\ pc' = "rep"
                   /\ w' = [w EXCEPT !.n = 0, !.nrepeat = 1, !.ins = c.upds,
                                     !.orig_deleted = TRUE]
                   /\ UNCHANGED <<r, buf, blocks, track, cells, asserts>>
              [] c.cell = "ovfl" /\ c.upds = <<>> ->
                   IF w.can_compare
                   THEN CallHelper(Env, w, w.last_deleted, NoRaw, w.rle, "raw")
                   ELSE CallHelper(
                          [Env EXCEPT !.r.last = <<c.ptr>>,
                                      !.r.lastbuf.ptr = c.ptr],
                          w, FALSE,
                          [on |-> TRUE, len |-> ColCellLen(c), off |-> c.off],
                          c.rle, "rawdone")
              [] OTHER ->
                   /\ pc' = "rep"
                   /\ w' = [w EXCEPT !.n = 0, !.nrepeat = c.rle, !.ins = c.upds,
                                     !.orig_deleted = c.cell = "del",
                                     !.orig = IF c.cell = "del" THEN @
                                                                ELSE c.data]
                   /\ SetEnv(RecTrackCell(Env, c.cell = "ovfl", c.off))
    /\ UNCHANGED <<btree, freed, lim>>

\* Only values are compared, two deleted records never are the same.
ColVarSameValue(rr, ww, deleted, data) ==
    ~ww.last_deleted /\ ~deleted /\ rr.last = data

\* The comparison of the current item with the last one.
ColVarSame(rr, ww, deleted, data) ==
    \/ deleted /\ ww.last_deleted
    \/ ~ww.last_deleted /\ ~deleted /\ rr.last = data

\* "Swap the current/last state", and "Reset RLE counter and turn on
\* comparisons".
ColVarSwap(rr, ww, deleted, data, rle, moved) ==
    [r |-> IF ~deleted
           THEN [BufSetLast(rr, data, moved) EXCEPT !.lastbuf.src = ww.dsrc]
           ELSE rr,
     w |-> [ww EXCEPT !.last_deleted = deleted, !.rle = rle,
                      !.can_compare = TRUE]]

\* One turn of the loop over the records of a cell.
ColVarRepeat ==
    /\ pc = "rep"
    /\ page.type = "COL_VAR"
    /\ IF w.n >= w.nrepeat
       THEN /\ pc' = "walk"
            /\ w' = [w EXCEPT !.i = @ + 1]
            /\ UNCHANGED <<r, buf, blocks, track, cells, asserts>>
       ELSE LET hit == w.ins # <<>> /\ w.ins[1].recno = w.src_recno
                upd == w.ins[1]
                deleted == IF hit THEN upd.deleted ELSE w.orig_deleted
                data == IF deleted THEN w.data
                        ELSE IF hit THEN upd.data ELSE w.orig
                ins == IF hit THEN Tail(w.ins) ELSE w.ins
                repeat_count ==
                    IF hit THEN 1
                    ELSE IF ins = <<>> THEN w.nrepeat - w.n
                    ELSE ins[1].recno - w.src_recno
                w1 == [w EXCEPT !.ins = ins, !.deleted = deleted,
                                !.data = data, !.repeat_count = repeat_count,
                                !.dsrc = IF deleted THEN @
                                         ELSE IF hit THEN upd.uid
                                         ELSE page.rows[w.i].ptr]
                w2 == [w1 EXCEPT !.n = @ + repeat_count,
                                 !.src_recno = @ + repeat_count]
            IN IF w.can_compare
               THEN IF ColVarSame(r, w, deleted, data)
                    THEN /\ pc' = "rep"
                         /\ w' = [w2 EXCEPT !.rle = @ + repeat_count]
                         /\ UNCHANGED <<r, buf, blocks, track, cells, asserts>>
                    ELSE CallHelper(Env, w1, w.last_deleted, NoRaw, w.rle, "cmp")
               ELSE \E moved \in Moves(r, data) :
                      LET sw == ColVarSwap(r, w2, deleted, data, repeat_count,
                                           moved)
                      IN /\ pc' = "rep"
                         /\ w' = sw.w
                         /\ r' = sw.r
                         /\ UNCHANGED <<buf, blocks, track, cells, asserts>>
    /\ UNCHANGED <<btree, page, freed, lim>>

\* The cells are walked: the walk of the append list starts.
ColVarCellsDone ==
    /\ pc = "walk"
    /\ page.type = "COL_VAR"
    /\ ~page.bulk
    /\ w.i > Len(page.rows)
    /\ pc' = "app"
    /\ page' = [page EXCEPT !.open = FALSE]
    /\ w' = [w EXCEPT !.a = 1]
    /\ UNCHANGED <<btree, track, r, buf, blocks, cells, freed, asserts, lim>>

\* The records an append list can hold after the records before record n.
AppendsAt(a, n, gaps) ==
    IF a <= Len(page.appends) THEN {page.appends[a]}
    ELSE {Upd(n + gap, FALSE, v, 100 + a) : gap \in gaps, v \in {<<1>>, <<2>>}}

\* One turn of the loop over the append list.
ColVarAppend ==
    /\ pc = "app"
    /\ page.type = "COL_VAR"
    /\ w.a <= Len(page.appends) \/ (page.appopen /\ Len(page.appends) < lim.napps)
    /\ \E ins \in AppendsAt(w.a, w.src_recno, lim.vgaps) :
         /\ page' = IF w.a <= Len(page.appends) THEN page
                    ELSE [page EXCEPT !.appends = Append(@, ins)]
         /\ IF w.src_recno > ins.recno
            THEN /\ pc' = "app"
                 /\ w' = [w EXCEPT !.a = @ + 1]
                 /\ UNCHANGED <<r, buf, blocks, track, cells, asserts>>
            ELSE LET deleted == IF w.src_recno < ins.recno THEN TRUE
                                ELSE ins.deleted
                     data == IF deleted THEN w.data ELSE ins.data
                     w1 == [w EXCEPT !.deleted = deleted, !.data = data,
                                     !.dsrc = IF deleted THEN @ ELSE ins.uid]
                     w2 == [w1 EXCEPT !.src_recno = @ + 1]
                 IN IF w.can_compare
                    THEN IF ColVarSame(r, w, deleted, data)
                         THEN /\ pc' = "app"
                              /\ w' = [w2 EXCEPT !.rle = @ + 1]
                              /\ UNCHANGED <<r, buf, blocks, track, cells,
                                             asserts>>
                         ELSE CallHelper(Env, w1, w.last_deleted, NoRaw,
                                         w.rle, "appcmp")
                    ELSE \E moved \in Moves(r, data) :
                           LET sw == ColVarSwap(r, w2, deleted, data, 1, moved)
                           IN /\ pc' = "app"
                              /\ w' = sw.w
                              /\ r' = sw.r
                              /\ UNCHANGED <<buf, blocks, track, cells,
                                             asserts>>
    /\ UNCHANGED <<btree, freed, lim>>

\* The append list is walked: "If we were tracking a record, write it".
ColVarLast ==
    /\ pc = "app"
    /\ page.type = "COL_VAR"
    /\ w.a > Len(page.appends)
    /\ page' = [page EXCEPT !.appopen = FALSE]
    /\ IF w.can_compare
       THEN CallHelper(Env, w, w.last_deleted, NoRaw, w.rle, "finish")
       ELSE /\ pc' = "finish"
            /\ w' = w
            /\ UNCHANGED <<r, buf, blocks, track, cells, asserts>>
    /\ UNCHANGED <<btree, freed, lim>>

\* The record number after a cell of one record.
HelperRecnoOne(recno, rle) == recno + 1

\* __rec_col_var_helper, "r->recno += rle": the record number after the
\* cell's run of rle records.
HelperRecno(recno, rle) == recno + rle

\* while (val->len > r->space_avail)
ColVarSplit ==
    /\ pc = "fit"
    /\ page.type = "COL_VAR"
    /\ ~w.hskip
    /\ r.v.len > r.space_avail
    /\ SetEnv(RecSplit(Env))
    /\ UNCHANGED <<btree, page, freed, pc, w, lim>>

\* The cell is copied to the page and the helper returns: the walk goes on
\* where it called the helper.
ColVarCopy ==
    /\ pc = "fit"
    /\ page.type = "COL_VAR"
    /\ w.hskip \/ ~(r.v.len > r.space_avail)
    /\ LET e1 == RecCopyIncr(Env, r.v)
           e2 == IF w.hskip THEN Env
                 ELSE [e1 EXCEPT !.r.recno = HelperRecno(@, w.hrle)]
           c == page.rows[w.i]
       IN CASE w.ret = "raw" ->
                 CallHelper([e2 EXCEPT !.r.last = <<c.ptr>>,
                                       !.r.lastbuf.ptr = c.ptr],
                            [w EXCEPT !.can_compare = FALSE], FALSE,
                            [on |-> TRUE, len |-> ColCellLen(c), off |-> c.off],
                            c.rle, "rawdone")
            [] w.ret = "rawdone" ->
                 /\ SetEnv(e2)
                 /\ pc' = "walk"
                 /\ w' = [w EXCEPT !.src_recno = @ + c.rle, !.i = @ + 1]
            [] w.ret = "cmp" ->
                 \E moved \in Moves(r, w.data) :
                   LET sw == ColVarSwap(e2.r,
                                 [w EXCEPT !.n = @ + w.repeat_count,
                                           !.src_recno = @ + w.repeat_count],
                                 w.deleted, w.data, w.repeat_count, moved)
                   IN /\ SetEnv([e2 EXCEPT !.r = sw.r])
                      /\ pc' = "rep"
                      /\ w' = sw.w
            [] w.ret = "appcmp" ->
                 \E moved \in Moves(r, w.data) :
                   LET sw == ColVarSwap(e2.r, [w EXCEPT !.src_recno = @ + 1],
                                        w.deleted, w.data, 1, moved)
                   IN /\ SetEnv([e2 EXCEPT !.r = sw.r])
                      /\ pc' = "app"
                      /\ w' = sw.w
            [] w.ret = "bulk" ->
                 /\ SetEnv(e2)
                 /\ pc' = "walk"
                 /\ w' = [w EXCEPT !.rle = 1, !.i = @ + 1]
            [] w.ret = "missing" ->
                 /\ SetEnv(e2)
                 /\ pc' = "walk"
                 /\ w' = w
            [] OTHER ->
                 /\ SetEnv(e2)
                 /\ pc' = "finish"
                 /\ w' = w
    /\ UNCHANGED <<btree, page, freed, lim>>

\* "Write the remnant page".
ColVarFinish ==
    /\ pc = "finish"
    /\ page.type = "COL_VAR"
    /\ SetEnv(RecSplitFinish(Env))
    /\ page' = [page EXCEPT !.open = FALSE]
    /\ pc' = "wrapup"
    /\ UNCHANGED <<btree, freed, w, lim>>

\* The values a bulk-loaded page can hold at a position.
BulkValues(i) == {Upd(0, FALSE, v, i) : v \in {<<1>>, <<2>>, <<8, 8, 8>>}}

BulkAt(i) == IF i <= Len(page.rows) THEN {page.rows[i]} ELSE BulkValues(i)

\* One turn of the loop of __rec_col_var_bulk over the update list: the walk
\* is at update i, whose successor is the next update of the page, if any.
ColVarBulk ==
    /\ pc = "walk"
    /\ page.type = "COL_VAR"
    /\ page.bulk
    /\ w.i <= Len(page.rows)
    /\ \E more \in IF w.i < Len(page.rows) THEN {TRUE}
                   ELSE IF page.open /\ Len(page.rows) < lim.ncells
                        THEN BOOLEAN ELSE {FALSE} :
       \E next \in IF more THEN BulkAt(w.i + 1) ELSE {Upd(0, TRUE, <<>>, 0)} :
         LET upd == page.rows[w.i]
         IN /\ page' = IF w.i < Len(page.rows) THEN page
                       ELSE IF more THEN [page EXCEPT !.rows = Append(@, next)]
                       ELSE [page EXCEPT !.open = FALSE]
            /\ IF more /\ upd.data = next.data
               THEN /\ pc' = "walk"
                    /\ w' = [w EXCEPT !.rle = @ + 1, !.i = @ + 1]
                    /\ UNCHANGED <<r, buf, blocks, track, cells, asserts>>
               ELSE /\ SetEnv(ValueSrc(Env,
                                RecCellBuildVal(Env, upd.data, upd.uid, w.rle,
                                                btree),
                                upd.uid))
                    /\ pc' = "fit"
                    /\ w' = [w EXCEPT !.ret = "bulk", !.hrle = w.rle]
    /\ UNCHANGED <<btree, freed, lim>>

\* The update list is walked.
ColVarBulkDone ==
    /\ pc = "walk"
    /\ page.type = "COL_VAR"
    /\ page.bulk
    /\ w.i > Len(page.rows)
    /\ pc' = "finish"
    /\ page' = [page EXCEPT !.open = FALSE]
    /\ UNCHANGED <<btree, track, r, buf, blocks, cells, freed, asserts, w, lim>>

(***************************************************************************)
(* __rec_col_fix and __rec_col_fix_bulk.                                   *)
(***************************************************************************)

\* __bitstr_size: the bytes that hold nbits bits.
BitstrSize(nbits) == (nbits + 7) \div 8

\* __bit_setv(r->first_free, entry, bitcnt, v) on the entries at first_free.
BitSetv(bits, entry, v) ==
    IF entry < Len(bits) THEN [bits EXCEPT ![entry + 1] = v]
    ELSE bits \o [k \in 1..(entry - Len(bits)) |-> 0] \o <<v>>

\* __rec_incr(session, r, entry, __bitstr_size(entry * bitcnt)): the entries
\* set at first_free become part of the page.
FixIncr(e, bits, entry, bt) ==
    LET n == Len(e.cells) + 1
        size == BitstrSize(entry * bt.bitcnt)
        e1 == IF bits = <<>> THEN e
              ELSE [e EXCEPT
                      !.buf = SubSeq(@, 1, e.r.first_free - WT_PAGE_DISK_SIZE)
                                \o [j \in 1..size |-> <<n, j>>],
                      !.cells = Append(@,
                          [NoInfo EXCEPT !.ctype = "FIX", !.data = bits,
                                         !.rle = Len(bits)]
                            @@ [len |-> size,
                                recno |-> e.r.recno - Len(bits)])]
    IN RecIncr(e1, entry, size)

\* The updates of the records of the disk image are applied to the page's
\* entries.
RECURSIVE BitSetvRecno(_, _, _)
BitSetvRecno(rows, recno, upds) ==
    IF upds = <<>> THEN rows
    ELSE BitSetvRecno([rows EXCEPT ![upds[1].recno - recno + 1] = upds[1].data[1]],
                      recno, Tail(upds))

\* __rec_col_fix up to the walk of the append list.
ColFixCopy ==
    /\ pc = "walk"
    /\ page.type = "COL_FIX"
    /\ ~page.bulk
    /\ ~w.salvage.on
    /\ LET rows == BitSetvRecno(page.rows, page.recno, page.upds)
           entry == Len(rows)
       IN /\ page' = [page EXCEPT !.rows = rows]
          /\ w' = [w EXCEPT !.bits = rows, !.entry = entry,
                            !.nrecs = U32((r.space_avail \div btree.bitcnt)
                                          - entry),
                            !.a = 1]
          /\ r' = [r EXCEPT !.recno = @ + entry]
    /\ pc' = "app"
    /\ UNCHANGED <<btree, track, buf, blocks, cells, freed, asserts, lim>>

\* The gap before record recno is not filled.
GapSkip(ww, rr, recno) == [w |-> ww, r |-> rr]

\* The records of the gap before record recno that fit on the page.
GapFill(ww, rr, recno) ==
    LET k == Min(ww.nrecs, IF rr.recno < recno THEN recno - rr.recno ELSE 0)
    IN [w |-> [ww EXCEPT !.bits = IF k = 0 THEN @
                                  ELSE BitSetv(@, ww.entry + k - 1, 0),
                         !.entry = @ + k, !.nrecs = @ - k],
        r |-> [rr EXCEPT !.recno = @ + k]]

\* A turn of the loop over an appended record: the gap is filled, and the
\* record is set, when there is room for it.
ColFixAppend ==
    /\ pc = "app"
    /\ page.type = "COL_FIX"
    /\ w.a <= Len(page.appends) \/ (page.appopen /\ Len(page.appends) < lim.napps)
    /\ \E ins \in AppendsAt(w.a, r.recno, lim.fgaps) :
         LET g == GapFill(w, r, ins.recno)
         IN /\ g.w.nrecs > 0
            /\ page' = IF w.a <= Len(page.appends) THEN page
                       ELSE [page EXCEPT !.appends = Append(@, ins)]
            /\ w' = [g.w EXCEPT !.bits = BitSetv(@, g.w.entry, ins.data[1]),
                                !.entry = @ + 1, !.nrecs = @ - 1, !.a = @ + 1]
            /\ r' = [g.r EXCEPT !.recno = @ + 1]
    /\ UNCHANGED <<btree, track, buf, blocks, cells, freed, asserts, pc, lim>>

\* A turn of the loop over an appended record: "If everything didn't fit,
\* update the counters and split."
ColFixSplit ==
    /\ pc = "app"
    /\ page.type = "COL_FIX"
    /\ w.a <= Len(page.appends) \/ (page.appopen /\ Len(page.appends) < lim.napps)
    /\ \E ins \in AppendsAt(w.a, r.recno, lim.fgaps) :
         LET g == GapFill(w, r, ins.recno)
             e1 == RecSplit(FixIncr([Env EXCEPT !.r = g.r], g.w.bits,
                                    g.w.entry, btree))
         IN /\ g.w.nrecs = 0
            /\ page' = IF w.a <= Len(page.appends) THEN page
                       ELSE [page EXCEPT !.appends = Append(@, ins)]
            /\ SetEnv(e1)
            /\ w' = [g.w EXCEPT !.bits = <<>>, !.entry = 0,
                                !.nrecs = e1.r.space_avail \div btree.bitcnt]
    /\ UNCHANGED <<btree, freed, pc, lim>>

\* The append list is walked: "Update the counters", "Write the remnant
\* page".
ColFixFinish ==
    /\ pc = "app"
    /\ page.type = "COL_FIX"
    /\ w.a > Len(page.appends)
    /\ SetEnv(RecSplitFinish(FixIncr(Env, w.bits, w.entry, btree)))
    /\ page' = [page EXCEPT !.open = FALSE, !.appopen = FALSE]
    /\ pc' = "wrapup"
    /\ UNCHANGED <<btree, freed, w, lim>>

\* __bit_getv(page->u.col_leaf.bitf, n, bitcnt) for n = start ..
\* start + k - 1: the entries of the page; what an entry at or after
\* page->entries reads is not defined, any value can come out.
BitGetv(rows, start, k) ==
    {bits \in [1..k -> {0, 1}] :
        \A j \in 1..k : start + j <= Len(rows) => bits[j] = rows[start + j]}

\* One turn of the loop of __rec_col_fix_slvg: a chunk is filled with the
\* missing records, then with the records taken from the page; the chunk
\* is split off if records are left, the remnant page is written if not.
ColFixSlvg ==
    /\ pc = "walk"
    /\ page.type = "COL_FIX"
    /\ ~page.bulk
    /\ w.salvage.on
    /\ LET nrecs == r.space_avail \div btree.bitcnt
           km == Min(nrecs, w.salvage.missing)
           kt == Min(nrecs - km, w.page_take)
           entry == km + kt
           w1 == [w EXCEPT !.salvage.missing = @ - km,
                           !.page_take = @ - kt,
                           !.page_start = @ + kt,
                           !.oob = @ \/ w.page_start + kt > Len(page.rows)]
       IN \E got \in BitGetv(page.rows, w.page_start, kt) :
            LET bits == [j \in 1..km |-> 0] \o got
                e1 == FixIncr([Env EXCEPT !.r.recno = @ + entry], bits, entry,
                              btree)
            IN IF w1.salvage.missing = 0 /\ w1.page_take = 0
               THEN /\ SetEnv(RecSplitFinish(e1))
                    /\ pc' = "wrapup"
                    /\ w' = w1
                    /\ page' = [page EXCEPT !.open = FALSE, !.appopen = FALSE]
               ELSE /\ SetEnv(RecSplit(e1))
                    /\ pc' = "walk"
                    /\ w' = w1
                    /\ page' = page
    /\ UNCHANGED <<btree, freed, lim>>

\* __rec_col_fix_bulk
ColFixBulk ==
    /\ pc = "walk"
    /\ page.type = "COL_FIX"
    /\ page.bulk
    /\ LET e1 == FixIncr([Env EXCEPT !.r.recno = @ + Len(page.rows)],
                         page.rows, Len(page.rows), btree)
       IN SetEnv(RecSplitFinish(e1))
    /\ page' = [page EXCEPT !.open = FALSE, !.appopen = FALSE]
    /\ pc' = "wrapup"
    /\ UNCHANGED <<btree, freed, w, lim>>

(***************************************************************************)
(* __rec_write_wrapup.                                                     *)
(***************************************************************************)

\* __rec_track_restart_row / __rec_track_restart_col: every block of the
\* previous split is tracked.
RECURSIVE RecTrackRestart(_, _, _)
RecTrackRestart(e, refs, i) ==
    IF i > Len(refs) THEN e
    ELSE RecTrackRestart(RecTrack(e, "BLOCK", 0, refs[i].addr, refs[i].size),
                         refs, i + 1)

\* __rec_split_row
RecSplitRow(rr) ==
    [type |-> "ROW_INT", entries |-> rr.bnd_next, recno |-> 0,
     flags |-> {"REC_SPLIT"},
     refs |-> [i \in 1..rr.bnd_next |->
                 [key |-> rr.bnd[i].key, recno |-> 0,
                  addr |-> rr.bnd[i].off.addr, size |-> rr.bnd[i].off.size,
                  state |-> "DISK", page |-> "NULL"]]]

\* __rec_split_col
RecSplitCol(rr) ==
    [type |-> "COL_INT", entries |-> rr.bnd_next, recno |-> rr.bnd[1].recno,
     flags |-> {"REC_SPLIT"},
     refs |-> [i \in 1..rr.bnd_next |->
                 [key |-> <<>>, recno |-> rr.bnd[i].recno,
                  addr |-> rr.bnd[i].off.addr, size |-> rr.bnd[i].off.size,
                  state |-> "DISK", page |-> "NULL"]]]

\* The first switch of __rec_write_wrapup: the previous result is tracked.
WrapupTrack(e, p) ==
    CASE p.flags = {"REC_SPLIT"} -> RecTrackRestart(e, p.write_split.refs, 1)
      [] p.flags = {"REC_REPLACE"} ->
            RecTrack(e, "BLOCK", 0, p.write_off.addr, p.write_off.size)
      [] OTHER -> e

\* F_CLR(page, WT_PAGE_REC_MASK); the split page of the previous result was
\* discarded, the other member of the union is overwritten.
WT_PAGE_REC_MASK == {"REC_EMPTY", "REC_REPLACE", "REC_SPLIT"}

RecClearKeep(p) == p

RecClear(p) == [p EXCEPT !.flags = @ \ WT_PAGE_REC_MASK]

\* The second switch of __rec_write_wrapup: the page's new state.
WrapupPage(p, rr) ==
    CASE rr.bnd_next = 0 ->
            [p EXCEPT !.flags = @ \cup {"REC_EMPTY"},
                      !.write_split = NoSplit]
      [] rr.bnd_next = 1 ->
            [p EXCEPT !.flags = @ \cup {"REC_REPLACE"},
                      !.write_split = NoSplit, !.write_off = rr.bnd[1].off]
      [] OTHER ->
            [p EXCEPT !.flags = @ \cup {"REC_SPLIT"},
                      !.write_off = NoOff,
                      !.write_split = IF IsRow(p.type) THEN RecSplitRow(rr)
                                                       ELSE RecSplitCol(rr)]

\* The parent of every page is marked, the root page's too.
MarkParentAlways(p) == [p EXCEPT !.parent_write_gen = @ + 1]

\* if (!WT_PAGE_IS_ROOT(page)) __wt_page_set_modified(session, page->parent)
MarkParent(p) ==
    IF p.root THEN p ELSE [p EXCEPT !.parent_write_gen = @ + 1]

\* __rec_write_wrapup, and the end of __wt_rec_write.
Wrapup ==
    /\ pc = "wrapup"
    /\ SetEnv(WrapupTrack(Env, page))
    /\ page' = MarkParent(WrapupPage(RecClear(page), r))
    /\ pc' = "idle"
    /\ UNCHANGED <<btree, freed, w, lim>>

(***************************************************************************)
(* __wt_rec_discard_track.                                                 *)
(***************************************************************************)
\* Only the blocks of replaced pages are freed.
DiscardableBlocks(t) == t.type = "BLOCK"

\* The entries __wt_rec_discard_track frees.
Discardable(t) == t.type \in {"BLOCK", "OVFL_DISCARD"}

RECURSIVE DiscardFreed(_, _)
DiscardFreed(t, i) ==
    IF i > Len(t) THEN <<>>
    ELSE (IF Discardable(t[i]) THEN <<t[i].addr>> ELSE <<>>)
            \o DiscardFreed(t, i + 1)

\* No entry is reset.
DiscardTrackKeep(t) == t

DiscardTrack(t) ==
    [i \in 1..Len(t) |->
        IF Discardable(t[i])
        THEN [type |-> "EMPTY", ref |-> 0, addr |-> WT_ADDR_INVALID, size |-> 0]
        ELSE t[i]]

\* The entries processed when __wt_block_free fails at entry k (WT_RET: the
\* loop returns before entry k is reset); all of them when k = 0.
DiscardDone(t, k) == IF k = 0 THEN t ELSE SubSeq(t, 1, k - 1)

DiscardLeft(t, k) == IF k = 0 THEN <<>> ELSE SubSeq(t, k, Len(t))

\* The eviction or sync code discards the tracked objects of a page that
\* was reconciled; __wt_block_free succeeds (k = 0) or fails at entry k.
RecDiscardTrackStep(k) ==
    /\ pc = "idle"
    /\ r.run > 0
    /\ \E i \in 1..Len(track) : Discardable(track[i])
    /\ freed' = freed \o DiscardFreed(DiscardDone(track, k), 1)
    /\ track' = DiscardTrack(DiscardDone(track, k)) \o DiscardLeft(track, k)
    /\ UNCHANGED <<btree, page, r, buf, blocks, cells, asserts, pc, w, lim>>

RecDiscardTrack ==
    \E k \in {0} \cup {i \in 1..Len(track) : Discardable(track[i])} :
       RecDiscardTrackStep(k)

(***************************************************************************)
(* __wt_rec_write returns an error; another thread modifies the page       *)
(* while it is reconciled.                                                 *)
(***************************************************************************)
\* A WT_RET or WT_ERR of __wt_rec_write returns an error: __rec_write_init
\* fails to allocate the reconciliation structure of the tree, a call of
\* the writer or of the wrap-up fails (an allocation, a block write), or
\* __wt_page_set_modified fails on the parent after the wrap-up.
RecError ==
    /\ \/ /\ pc \in {"idle", "error"}
          /\ PageIsModified(page)
          /\ r.run = 0
          /\ r.run < lim.recs
          /\ page' = SetDiskGen(page)
          /\ SetEnv([Env EXCEPT !.r.run = @ + 1])
       \/ /\ pc \notin {"idle", "error", "built"}
          /\ UNCHANGED <<page, r, buf, blocks, track, cells, asserts>>
       \/ /\ pc = "wrapup"
          /\ ~page.root
          /\ SetEnv(WrapupTrack(Env, page))
          /\ page' = WrapupPage(RecClear(page), r)
    /\ pc' = "error"
    /\ UNCHANGED <<btree, freed, w, lim>>

\* Another thread modifies the page while it is reconciled, or after the
\* reconciliation returned an error: __wt_page_set_modified.
Touch ==
    /\ pc \notin {"idle", "built"}
    /\ r.run > 0
    /\ page.write_gen - page.disk_gen < MaxTouch
    /\ page' = [page EXCEPT !.write_gen = @ + 1]
    /\ UNCHANGED <<btree, r, buf, blocks, track, cells, freed, asserts, pc,
                   w, lim>>

(***************************************************************************)
(* The application modifies the page between two reconciliations.          *)
(***************************************************************************)
Modify ==
    /\ pc = "idle"
    /\ r.run > 0
    /\ r.run < lim.recs
    /\ ~PageIsModified(page)
    /\ page.type = "ROW_LEAF"
    /\ \E i \in 1..Len(page.rows), kind \in {"del", "val"}, n \in {0, 1, 3} :
         /\ kind = "del" => n = 0
         /\ page' = [page EXCEPT !.write_gen = @ + 1,
                                 !.nuid = @ + 1,
                                 !.rows[i].upd = kind,
                                 !.rows[i].udata = ValueOf(n),
                                 !.rows[i].uid = page.nuid]
    /\ UNCHANGED <<btree, track, r, buf, blocks, cells, freed, asserts, pc, w, lim>>

\* The first record of cell i of a variable-length column-store page.
RECURSIVE CellRecno(_, _)
CellRecno(p, i) ==
    IF i = 1 THEN p.recno ELSE CellRecno(p, i - 1) + p.rows[i - 1].rle

\* The application updates the first record of a cell of a variable-length
\* column-store page that has no update yet.
ModifyCol ==
    /\ pc = "idle"
    /\ r.run > 0
    /\ r.run < lim.recs
    /\ ~PageIsModified(page)
    /\ page.type = "COL_VAR"
    /\ \E i \in 1..Len(page.rows), v \in {<<2>>, <<6, 6, 6>>} :
         /\ page.rows[i].upds = <<>>
         /\ page' = [page EXCEPT !.write_gen = @ + 1,
                                 !.rows[i].upds =
                                     <<Upd(CellRecno(page, i), FALSE, v,
                                           10 * i + 1)>>]
    /\ UNCHANGED <<btree, track, r, buf, blocks, cells, freed, asserts, pc, w, lim>>

\* A child of a row-store internal page is reconciled between two
\* reconciliations of the page: __rec_write_wrapup of the child clears the
\* child's state and sets the new one (empty or replaced by a new block),
\* and the page is marked modified.  A child that was empty can be modified
\* and reconciled again.
ChildOff(run, k) == [addr |-> 200 + 10 * run + k, size |-> 1]

ModifyChild ==
    /\ pc = "idle"
    /\ r.run > 0
    /\ r.run < lim.recs
    /\ ~PageIsModified(page)
    /\ page.type = "ROW_INT"
    /\ \E i \in 1..Len(page.rows), f \in {"REC_EMPTY", "REC_REPLACE"} :
         /\ page.rows[i].state = "MEM"
         /\ page.rows[i].child.flags # {f}
         /\ page' = [page EXCEPT
                       !.write_gen = @ + 1,
                       !.rows[i].child =
                           [flags |-> {f}, modify |-> TRUE,
                            write_off |-> IF f = "REC_REPLACE"
                                          THEN ChildOff(r.run, page.rows[i].recno)
                                          ELSE NoOff,
                            refs |-> <<>>]]
    /\ UNCHANGED <<btree, track, r, buf, blocks, cells, freed, asserts, pc, w, lim>>

(***************************************************************************)
(* The initial states.                                                     *)
(***************************************************************************)
\* The configurations of the tree: the page sizes and the split percentage,
\* and, for a row-store, the key compression configured.
Sizes == {<<16, 24, 50>>, <<8, 12, 100>>}

Config(sz, pfx, sfx) ==
    [allocsize |-> 4, split_pct |-> sz[3], maxleafpage |-> sz[1],
     maxintlpage |-> sz[2], maxleafitem |-> 2, maxintlitem |-> 2,
     bitcnt |-> 1,
     key_pfx_compress_conf |-> pfx, key_sfx_compress_conf |-> sfx]

Configs(type) ==
    CASE type = "ROW_LEAF" ->
            {Config(sz, pfx, sfx) : sz \in Sizes, pfx \in BOOLEAN, sfx \in BOOLEAN}
      [] type = "ROW_INT" ->
            {Config(sz, pfx, TRUE) : sz \in Sizes, pfx \in BOOLEAN}
      [] OTHER -> {Config(sz, FALSE, FALSE) : sz \in Sizes}

InitR ==
    [run |-> 0, type |-> "NONE", page_size |-> 0, split_size |-> 0,
     bnd_state |-> "SPLIT_BOUNDARY", bnd |-> <<>>, bnd_next |-> 0,
     total_entries |-> 0, recno |-> 0, entries |-> 0,
     first_free |-> 0, space_avail |-> 0,
     k |-> NoKV, v |-> NoKV, cur |-> <<>>, last |-> <<>>,
     key_pfx_compress |-> FALSE, key_sfx_compress |-> FALSE,
     cell_zero |-> FALSE, merge_ref |-> NoMergeRef,
     lastbuf |-> [ptr |-> 0, mem |-> 0, memsize |-> 0, allocs |-> 0,
                  src |-> 0]]

\* A page that was read from disk and modified: __wt_rec_modify_init tracked
\* the page's block.
InitPage(type) ==
    [type |-> type, rows |-> <<>>, open |-> TRUE,
     bulk |-> FALSE, upds |-> <<>>, appends |-> <<>>,
     appopen |-> type \in {"COL_VAR", "COL_FIX"},
     recno |-> IF IsRow(type) THEN 0 ELSE 3,
     nuid |-> IF type = "COL_INT" THEN 3 ELSE 1,
     write_gen |-> 1, disk_gen |-> 0, flags |-> {},
     write_off |-> NoOff, write_split |-> NoSplit,
     root |-> FALSE, parent_write_gen |-> 0]

\* The entries a fixed-length column-store page of the tree holds at most.
FixCap(bt) == (bt.maxleafpage - WT_PAGE_DISK_SIZE) \div bt.bitcnt

\* The entries of a fixed-length column-store page.
FixRows(bt) == {[k \in 1..n |-> k % 2] : n \in {0, 3, FixCap(bt)}}

\* The pages of a type: read from disk, or bulk-loaded and never written.
InitPages(type, bt) ==
    CASE type = "COL_VAR" ->
           {InitPage(type)}
           \cup {[InitPage(type) EXCEPT !.bulk = TRUE, !.appopen = FALSE,
                                        !.rows = rows, !.open = rows # <<>>] :
                    rows \in {<<>>} \cup {<<upd>> : upd \in BulkValues(1)}}
      [] type = "COL_FIX" ->
           {[InitPage(type) EXCEPT !.rows = rows, !.upds = upds, !.open = FALSE] :
              rows \in FixRows(bt),
              upds \in {<<>>, <<Upd(4, FALSE, <<1>>, 1)>>}}
           \cup {[InitPage(type) EXCEPT !.bulk = TRUE, !.appopen = FALSE,
                                        !.rows = rows, !.open = FALSE] :
                    rows \in FixRows(bt)}
      [] OTHER -> {InitPage(type)}

InitCommon ==
    /\ \E t \in lim.types :
         /\ btree \in Configs(t)
         /\ \E root \in lim.roots :
              page \in {[p EXCEPT !.root = root] :
                          p \in {q \in InitPages(t, btree) :
                                   /\ q.upds = <<>> \/ Len(q.rows) >= 2
                                   /\ q.bulk => lim.recs = 1}}
    /\ track = IF page.bulk THEN <<>>
               ELSE <<[type |-> "BLOCK", ref |-> 0, addr |-> OrigPageOff.addr,
                       size |-> OrigPageOff.size]>>
    /\ r = InitR
    /\ buf = <<>>
    /\ blocks = <<>>
    /\ cells = <<>>
    /\ freed = <<>>
    /\ asserts = {}
    /\ pc = "idle"
    /\ w = InitW

Init ==
    /\ lim = [recs |-> 1, rows |-> MaxRows, shapes |-> RowShapes,
              nrefs |-> MaxRefs, refs |-> RefShapes, crefs |-> ColRefShapes,
              ncells |-> MaxCells, cshapes |-> CellShapes,
              napps |-> MaxAppends, vgaps |-> {0, 2}, fgaps |-> {0, 2, 7},
              types |-> {"ROW_LEAF", "ROW_INT", "COL_INT", "COL_VAR",
                         "COL_FIX"},
              roots |-> {FALSE},
              slvg |-> {NoSalvage}]
    /\ InitCommon

InitLife ==
    /\ lim = [recs |-> MaxRecs, rows |-> MaxRowsLife, shapes |-> RowShapesLife,
              nrefs |-> MaxRefs, refs |-> RefShapes, crefs |-> ColRefShapes,
              ncells |-> MaxCellsLife, cshapes |-> CellShapesLife,
              napps |-> 0, vgaps |-> {0, 2}, fgaps |-> {0, 2, 7},
              types |-> {"ROW_LEAF", "COL_VAR"},
              roots |-> {FALSE},
              slvg |-> {NoSalvage}]
    /\ InitCommon

InitGen ==
    /\ lim = [recs |-> MaxRecs, rows |-> MaxRowsLife, shapes |-> RowShapesLife,
              nrefs |-> MaxRefs, refs |-> RefShapes, crefs |-> ColRefShapes,
              ncells |-> MaxCellsLife, cshapes |-> CellShapesLife,
              napps |-> 0, vgaps |-> {0, 2}, fgaps |-> {0, 2, 7},
              types |-> {"ROW_LEAF", "COL_VAR"},
              roots |-> BOOLEAN,
              slvg |-> {NoSalvage}]
    /\ InitCommon

InitOvfl ==
    /\ lim = [recs |-> MaxRecs, rows |-> MaxRowsOvfl, shapes |-> RowShapesLife,
              nrefs |-> MaxRefs, refs |-> RefShapes, crefs |-> ColRefShapes,
              ncells |-> MaxCellsLife, cshapes |-> CellShapesLife,
              napps |-> 0, vgaps |-> {0, 2}, fgaps |-> {0, 2, 7},
              types |-> {"ROW_LEAF"},
              roots |-> {FALSE},
              slvg |-> {NoSalvage}]
    /\ InitCommon

\* The salvage cookies of the model.
Cookies3 ==
    {Salvage(m, s, t) : m \in {0, 2}, s \in 0..2, t \in 0..MaxTake}

InitSlvg ==
    /\ lim = [recs |-> 1, rows |-> MaxRows, shapes |-> RowShapes,
              nrefs |-> MaxRefs, refs |-> RefShapes, crefs |-> ColRefShapes,
              ncells |-> MaxCellsLife, cshapes |-> {"a1", "d2", "a2"},
              napps |-> 0, vgaps |-> {0, 2}, fgaps |-> {0, 2, 7},
              types |-> {"COL_VAR", "COL_FIX"},
              roots |-> {FALSE},
              slvg |-> Cookies3]
    /\ InitCommon

InitInt ==
    /\ lim = [recs |-> MaxRecs, rows |-> MaxRowsLife, shapes |-> RowShapesLife,
              nrefs |-> MaxRefsLife, refs |-> RefShapes, crefs |-> ColRefShapes,
              ncells |-> MaxCellsLife, cshapes |-> CellShapesLife,
              napps |-> 0, vgaps |-> {0, 2}, fgaps |-> {0, 2, 7},
              types |-> {"ROW_INT"},
              roots |-> {FALSE},
              slvg |-> {NoSalvage}]
    /\ InitCommon

\* Row-store internal pages with split pages inside split pages, and with
\* split pages whose children are empty.
InitMerge ==
    /\ lim = [recs |-> 1, rows |-> MaxRowsLife, shapes |-> RowShapesLife,
              nrefs |-> MaxRefsLife, refs |-> RefShapesMerge,
              crefs |-> ColRefShapes,
              ncells |-> MaxCellsLife, cshapes |-> CellShapesLife,
              napps |-> 0, vgaps |-> {0, 2}, fgaps |-> {0, 2, 7},
              types |-> {"ROW_INT"},
              roots |-> {FALSE},
              slvg |-> {NoSalvage}]
    /\ InitCommon

\* __rec_cell_build_key as a function of the key, of the last key written
\* and of the compression state: the keys, in the tree's order, keys longer
\* than UINT8_MAX bytes among them; a key is built after a smaller one.
Ones(n) == [j \in 1..n |-> 1]

KeyInputs ==
    <<KeyOf(1), KeyOf(2), KeyOf(3), Ones(UINT8_MAX), Ones(UINT8_MAX + 1),
      Ones(UINT8_MAX + 1) \o <<2>>, Ones(UINT8_MAX + 2) \o <<2>>,
      Ones(UINT8_MAX) \o <<2>>, KeyOf(4), KeyOf(5)>>

InitKey ==
    /\ lim = [recs |-> 0, rows |-> MaxRows, shapes |-> RowShapes,
              nrefs |-> MaxRefs, refs |-> RefShapes, crefs |-> ColRefShapes,
              ncells |-> MaxCells, cshapes |-> CellShapes,
              napps |-> MaxAppends, vgaps |-> {0, 2}, fgaps |-> {0, 2, 7},
              types |-> {"ROW_LEAF", "ROW_INT"},
              roots |-> {FALSE},
              slvg |-> {NoSalvage}]
    /\ \E t \in lim.types :
         /\ btree \in Configs(t)
         /\ page = InitPage(t)
    /\ track = <<[type |-> "BLOCK", ref |-> 0, addr |-> OrigPageOff.addr,
                  size |-> OrigPageOff.size]>>
    /\ \E i \in 1..Len(KeyInputs), pfx \in BOOLEAN :
         r = [InitR EXCEPT !.last = KeyInputs[i], !.key_pfx_compress = pfx]
    /\ buf = <<>>
    /\ blocks = <<>>
    /\ cells = <<>>
    /\ freed = <<>>
    /\ asserts = {}
    /\ pc = "idle"
    /\ w = InitW

BuildKey ==
    /\ pc = "idle"
    /\ lim.recs = 0
    /\ \E i, j \in 1..Len(KeyInputs) :
         /\ i < j
         /\ r.last = KeyInputs[i]
         /\ SetEnv(RecCellBuildKey(Env, KeyInputs[j], FALSE,
                                   page.type = "ROW_INT", btree))
    /\ pc' = "built"
    /\ UNCHANGED <<btree, page, freed, w, lim>>

(***************************************************************************)
(* src/conn/conn_btree.c: the sessions get the tree handle.  The handle    *)
(* (btree.dhandle) holds the flags WT_DHANDLE_OPEN and                     *)
(* WT_DHANDLE_EXCLUSIVE and its read/write lock (the sessions holding it   *)
(* shared, the session holding it exclusive or 0; the reference count is   *)
(* left out: nothing here reads it);                                       *)
(* btree.schema is the session holding the schema lock, or 0;              *)
(* btree.sessions[s] is where session s is, and whether it asked for       *)
(* exclusive access.                                                       *)
(***************************************************************************)
Sessions == 1..MaxSessions

\* A session outside __wt_conn_btree_get and __wt_conn_btree_close.  at:
\* where the session is; excl, lock_only, special: the flags of its request
\* (WT_DHANDLE_EXCLUSIVE, WT_DHANDLE_LOCK_ONLY, WT_BTREE_SPECIAL_FLAGS);
\* nested: __conn_dhandle_open_lock was called by __conn_btree_open; ref:
\* the session has a reference to the handle; ret: what its last call of
\* __wt_conn_btree_get returned, found and refcnt0 what the handle was and
\* the reference count it had when the call began.
NoSession ==
    [at |-> "out", excl |-> FALSE, lock_only |-> FALSE, special |-> FALSE,
     nested |-> FALSE, ref |-> FALSE, ret |-> "none", found |-> "none",
     refcnt0 |-> 0]

\* No handle in the connection's list, and no session at work.  inlist: the
\* handle is in the list; special: a WT_BTREE_SPECIAL_FLAGS flag is set on
\* the tree; closes: the sessions that have a reference when
\* __wt_conn_btree_close closes the tree, and whether the write lock is
\* held then.
NoHandle ==
    [dhandle |-> [inlist |-> FALSE, open |-> FALSE, exclusive |-> FALSE,
                  special |-> FALSE, refcnt |-> 0,
                  readers |-> {}, writer |-> 0,
                  closes |-> [refs |-> {}, locked |-> TRUE, n |-> 0]],
     schema |-> 0,
     sessions |-> [s \in Sessions |-> NoSession]]

\* The rest of the model leaves the handle alone.
ConnOnly == UNCHANGED <<page, track, r, buf, blocks, cells, freed, asserts,
                        pc, w, lim>>

\* The state of the handle a call finds.
HandleState(dh) ==
    IF ~dh.inlist THEN "absent" ELSE IF dh.open THEN "open" ELSE "closed"

\* The session returns from __wt_conn_btree_get with ret, the schema lock
\* is released.
GetReturn(bt, s, ret) ==
    [bt EXCEPT !.schema = 0,
               !.sessions[s] = [NoSession EXCEPT
                                  !.at = IF ret = "ok" THEN "held" ELSE "out",
                                  !.ref = ret = "ok",
                                  !.ret = ret]]

\* __wt_conn_btree_get, "err:" with ret != 0: F_CLR(dhandle,
\* WT_DHANDLE_EXCLUSIVE); __wt_rwunlock(session, dhandle->rwlock): the lock
\* is released, whoever holds it.
GetErr(bt, s, ret) ==
    GetReturn([bt EXCEPT !.dhandle.exclusive = FALSE,
                         !.dhandle.writer = 0,
                         !.dhandle.readers = @ \ {s}], s, ret)

\* __wt_conn_btree_sync_and_close: WT_DHANDLE_OPEN and the special flags of
\* the tree are cleared.
SyncAndClose(dh) ==
    IF ~dh.open THEN dh ELSE [dh EXCEPT !.open = FALSE, !.special = FALSE]

\* __wt_conn_btree_close: --dhandle->refcnt.
DropRef(dh) == [dh EXCEPT !.refcnt = @ - 1]

\* The tree is closed whatever the reference count.
CloseAnyway(dh, locked, refs, holds) ==
    [dh EXCEPT !.open = FALSE, !.special = FALSE,
               !.closes = [refs |-> @.refs \cup refs,
                           locked |-> @.locked /\ holds,
                           n |-> 1],
               !.exclusive = IF locked THEN @ ELSE FALSE,
               !.writer = IF locked THEN @ ELSE 0]

\* __wt_conn_btree_close once the reference is dropped and, if locked is
\* not set, the write lock is held: the tree is closed if the handle is not
\* in use, and the lock released if the function took it.  refs are the
\* sessions that have a reference, holds tells that the caller holds the
\* write lock.
CloseLast(dh, locked, refs, holds) ==
    IF dh.refcnt > 0 THEN dh
    ELSE LET d1 == IF dh.open
                   THEN [SyncAndClose(dh) EXCEPT
                           !.closes = [refs |-> @.refs \cup refs,
                                       locked |-> @.locked /\ holds,
                                       n |-> Min(@.n + 1, 1)]]
                   ELSE dh
         IN IF locked THEN d1
            ELSE [d1 EXCEPT !.exclusive = FALSE, !.writer = 0]

\* The sessions that have a reference to the handle, s apart.
Referencing(bt, s) == {t \in Sessions \ {s} : bt.sessions[t].ref}

\* __wt_conn_btree_get calls __conn_dhandle_get with the schema lock held.
\* A handle that is in the list gets one more reference and
\* __conn_dhandle_open_lock is called; if there is none, a handle is
\* allocated (the allocation can fail), write-locked, WT_DHANDLE_EXCLUSIVE
\* is set and it goes to the list with one reference.  The special flags
\* are asked for with exclusive access only.
ConnDhandleGet(s) ==
    LET dh == btree.dhandle
    IN /\ btree.sessions[s].at = "out"
       /\ ~btree.sessions[s].ref
       /\ btree.schema = 0
       /\ dh.refcnt < MaxRefcnt
       /\ \E excl \in BOOLEAN, lock_only \in BOOLEAN, special \in BOOLEAN,
             fails \in BOOLEAN :
            LET ses == [NoSession EXCEPT
                          !.excl = excl, !.lock_only = lock_only,
                          !.special = special, !.found = HandleState(dh),
                          !.refcnt0 = dh.refcnt]
                b0 == [btree EXCEPT !.schema = s, !.sessions[s] = ses]
            IN /\ special => excl
               /\ fails => ~dh.inlist
               /\ btree' =
                    IF dh.inlist
                    THEN [b0 EXCEPT !.dhandle.refcnt = @ + 1,
                                    !.sessions[s].at = "lock"]
                    ELSE IF fails THEN GetReturn(b0, s, "ENOMEM")
                    ELSE [b0 EXCEPT !.dhandle.inlist = TRUE,
                                    !.dhandle.writer = s,
                                    !.dhandle.exclusive = TRUE,
                                    !.dhandle.refcnt = 1,
                                    !.sessions[s].at = "locked"]
       /\ ConnOnly

\* The lock can be taken whenever nobody holds it for writing.
LockNoWriter(dh) == dh.writer = 0

\* A request without exclusive access is read-locked whatever the handle.
ReadLockAlways(dh, excl) == ~excl

\* __conn_dhandle_open_lock: F_ISSET(dhandle, WT_DHANDLE_OPEN) &&
\* !LF_ISSET(WT_DHANDLE_EXCLUSIVE), tested before __wt_readlock and, for
\* the handle, once more with the lock held.
ReadLockable(dh, excl) == dh.open /\ ~excl

\* The handle's lock is free.
TryWriteLock(dh) == dh.readers = {} /\ dh.writer = 0

\* __conn_dhandle_open_lock returns EBUSY: to __wt_conn_btree_get, which
\* returns it at once (WT_RET), or to __conn_btree_open, which calls
\* __wt_conn_btree_close(session, 1) before __wt_conn_btree_get releases
\* the lock.
OpenLockBusy(bt, s) ==
    IF ~bt.sessions[s].nested THEN GetReturn(bt, s, "EBUSY")
    ELSE GetErr([bt EXCEPT !.dhandle =
                    CloseLast(DropRef(@), TRUE, Referencing(bt, s),
                              @.writer = s)], s, "EBUSY")

\* One turn of the loop of __conn_dhandle_open_lock: EBUSY for a request
\* without exclusive access if a special flag is set on the tree; an open
\* handle not asked for exclusively is read-locked (the session waits for
\* the writer to leave), and returned if it is still open; otherwise the
\* write lock is tried: it is dropped if the handle was opened meanwhile,
\* kept with WT_DHANDLE_EXCLUSIVE set if not; EBUSY if exclusive access
\* cannot be granted; else the session yields and tries again.
ConnDhandleOpenLock(s) ==
    LET dh == btree.dhandle
        excl == btree.sessions[s].excl
    IN /\ btree.sessions[s].at = "lock"
       /\ \/ /\ ~excl /\ dh.special
             /\ btree' = OpenLockBusy(btree, s)
          \/ /\ ~(~excl /\ dh.special)
             /\ ReadLockable(dh, excl)
             /\ dh.writer = 0
             /\ btree' = [btree EXCEPT !.dhandle.readers = @ \cup {s},
                                       !.sessions[s].at = "locked"]
          \/ /\ ~(~excl /\ dh.special)
             /\ ~ReadLockable(dh, excl)
             /\ TryWriteLock(dh)
             /\ btree' = [btree EXCEPT !.dhandle.writer = s,
                                       !.dhandle.exclusive = TRUE,
                                       !.sessions[s].at = "locked"]
          \/ /\ ~(~excl /\ dh.special)
             /\ ~ReadLockable(dh, excl)
             /\ ~TryWriteLock(dh)
             /\ excl
             /\ btree' = OpenLockBusy(btree, s)
       /\ ConnOnly

\* __conn_btree_open: an open handle is closed first (the close can fail,
\* WT_RET), the special flags asked for are set on the tree, the tree is
\* opened (failure: __wt_conn_btree_close(session, 1), and
\* __wt_conn_btree_get releases the lock), and the lock is dropped for
\* __conn_dhandle_open_lock if exclusive access was not asked for.
ConnBtreeOpen(bt, s, fails) ==
    LET ses == bt.sessions[s]
        d1 == SyncAndClose(bt.dhandle)
        d2 == [d1 EXCEPT !.special = @ \/ ses.special]
    IN CASE fails = "close" ->
              GetErr([bt EXCEPT !.dhandle = d1], s, "error")
         [] fails = "open" ->
              GetErr([bt EXCEPT !.dhandle =
                         CloseLast(DropRef(d2), TRUE, Referencing(bt, s),
                                   d2.writer = s)], s, "error")
         [] ses.excl ->
              GetReturn([bt EXCEPT !.dhandle = [d2 EXCEPT !.open = TRUE]],
                        s, "ok")
         [] OTHER ->
              [bt EXCEPT !.dhandle = [d2 EXCEPT !.open = TRUE,
                                                !.exclusive = FALSE,
                                                !.writer = 0,
                                                !.readers = @ \ {s}],
                         !.sessions[s].at = "lock",
                         !.sessions[s].nested = TRUE]

\* __wt_conn_btree_get once __conn_dhandle_get returned the handle locked,
\* or __conn_btree_open once __conn_dhandle_open_lock did: a handle that is
\* not open, or is asked for with a special flag, is opened unless the
\* request is to lock only (__wt_metadata_read can fail with ENOENT); the
\* handle is returned and the schema lock released.
ConnBtreeGet(s) ==
    LET dh == btree.dhandle
        ses == btree.sessions[s]
    IN /\ ses.at = "locked"
       /\ \E fails \in {"no", "meta", "close", "open"} :
            /\ fails # "no" =>
                 ~ses.nested /\ ~ses.lock_only /\ (~dh.open \/ ses.special)
            /\ fails = "close" => dh.open
            /\ btree' =
                 IF ses.nested \/ ses.lock_only \/ ~(~dh.open \/ ses.special)
                 THEN GetReturn(btree, s, "ok")
                 ELSE IF fails = "meta" THEN GetErr(btree, s, "ENOENT")
                 ELSE ConnBtreeOpen(btree, s, fails)
       /\ ConnOnly

\* A session that holds the handle calls __wt_rec_write on a page of the
\* tree: __rec_write_init takes session->btree->reconcile, no lock is
\* taken; __wt_rec_write returns.
RecWrite(s) ==
    /\ \/ /\ btree.sessions[s].at = "held"
          /\ btree.dhandle.open
          /\ btree' = [btree EXCEPT !.sessions[s].at = "rec"]
       \/ /\ btree.sessions[s].at = "rec"
          /\ btree' = [btree EXCEPT !.sessions[s].at = "held"]
    /\ ConnOnly

\* The session releases the handle: its lock is dropped
\* (F_CLR(dhandle, WT_DHANDLE_EXCLUSIVE); __wt_rwunlock).
ReleaseBtree(s) ==
    /\ btree.sessions[s].at = "held"
    /\ btree' = [btree EXCEPT
                   !.dhandle.exclusive = IF btree.dhandle.writer = s
                                         THEN FALSE ELSE @,
                   !.dhandle.writer = IF @ = s THEN 0 ELSE @,
                   !.dhandle.readers = @ \ {s},
                   !.sessions[s].at = "out",
                   !.sessions[s].ret = "none"]
    /\ ConnOnly

\* __wt_conn_btree_close(session, 0), with the schema lock held, by a
\* session that has a reference to the handle and no lock on it: the
\* reference is dropped; if it was the last one the session goes for the
\* write lock.
ConnBtreeClose(s) ==
    /\ btree.sessions[s].at = "out"
    /\ btree.sessions[s].ref
    /\ btree.schema = 0
    /\ LET d1 == DropRef(btree.dhandle)
       IN btree' = [btree EXCEPT
                      !.dhandle = d1,
                      !.schema = IF d1.refcnt > 0 THEN 0 ELSE s,
                      !.sessions[s].ref = FALSE,
                      !.sessions[s].at = IF d1.refcnt > 0 THEN "out"
                                                          ELSE "closing"]
    /\ ConnOnly

\* __wt_conn_btree_close, the last reference: __wt_writelock returns when
\* the lock is free, WT_DHANDLE_EXCLUSIVE is set, the tree is closed if it
\* is open, the flag is cleared and the lock released.
ConnBtreeCloseLast(s) ==
    /\ btree.sessions[s].at = "closing"
    /\ TryWriteLock(btree.dhandle)
    /\ btree' = [btree EXCEPT
                   !.dhandle = CloseLast(@, FALSE, Referencing(btree, s),
                                         TRUE),
                   !.schema = 0,
                   !.sessions[s].at = "out"]
    /\ ConnOnly

InitConn ==
    /\ lim = [recs |-> 0, rows |-> MaxRows, shapes |-> RowShapes,
              nrefs |-> MaxRefs, refs |-> RefShapes, crefs |-> ColRefShapes,
              ncells |-> MaxCells, cshapes |-> CellShapes,
              napps |-> MaxAppends, vgaps |-> {0, 2}, fgaps |-> {0, 2, 7},
              types |-> {"ROW_LEAF"},
              roots |-> {FALSE},
              slvg |-> {NoSalvage}]
    /\ \E bt \in Configs("ROW_LEAF") : btree = bt @@ NoHandle
    /\ page = InitPage("ROW_LEAF")
    /\ track = <<>>
    /\ r = InitR
    /\ buf = <<>>
    /\ blocks = <<>>
    /\ cells = <<>>
    /\ freed = <<>>
    /\ asserts = {}
    /\ pc = "idle"
    /\ w = InitW

NextConn ==
    \E s \in Sessions :
       \/ ConnDhandleGet(s)
       \/ ConnDhandleOpenLock(s)
       \/ ConnBtreeGet(s)
       \/ RecWrite(s)
       \/ ReleaseBtree(s)
       \/ ConnBtreeClose(s)
       \/ ConnBtreeCloseLast(s)

SpecConn == InitConn /\ [][NextConn]_vars

Next ==
    \/ Start
    \/ RowLeafEntry
    \/ RowLeafSplit
    \/ RowLeafCopy
    \/ RowLeafFinish
    \/ RowIntEntry
    \/ RowMergeEntry
    \/ RowMergeReturn
    \/ RowIntSplit
    \/ RowIntCopy
    \/ RowIntFinish
    \/ ColMergeEntry
    \/ ColMergeReturn
    \/ ColIntSplit
    \/ ColIntCopy
    \/ ColIntFinish
    \/ ColVarCell
    \/ ColVarRepeat
    \/ ColVarCellsDone
    \/ ColVarAppend
    \/ ColVarLast
    \/ ColVarSplit
    \/ ColVarCopy
    \/ ColVarFinish
    \/ ColVarBulk
    \/ ColVarBulkDone
    \/ ColFixCopy
    \/ ColFixAppend
    \/ ColFixSplit
    \/ ColFixFinish
    \/ ColFixBulk
    \/ Wrapup
    \/ RecDiscardTrack

NextLife ==
    \/ Start
    \/ RowLeafEntry
    \/ RowLeafSplit
    \/ RowLeafCopy
    \/ RowLeafFinish
    \/ ColVarCell
    \/ ColVarRepeat
    \/ ColVarCellsDone
    \/ ColVarLast
    \/ ColVarSplit
    \/ ColVarCopy
    \/ ColVarFinish
    \/ Wrapup
    \/ RecDiscardTrack
    \/ Modify
    \/ ModifyCol

NextInt ==
    \/ Start
    \/ RowIntEntry
    \/ RowMergeEntry
    \/ RowMergeReturn
    \/ RowIntSplit
    \/ RowIntCopy
    \/ RowIntFinish
    \/ Wrapup
    \/ RecDiscardTrack
    \/ ModifyChild

Spec == Init /\ [][Next]_vars

\* The reconciliations of SpecLife, of root pages too, with errors and with
\* modifications by other threads.
SpecGen == InitGen /\ [][NextLife \/ RecError \/ Touch]_vars

\* A row-store leaf page with keys longer than maxleafitem is reconciled,
\* modified and reconciled again.
NextOvfl ==
    \/ Start
    \/ RowLeafEntry
    \/ RowLeafSplit
    \/ RowLeafCopy
    \/ RowLeafFinish
    \/ Wrapup
    \/ RecDiscardTrack
    \/ Modify

SpecOvfl == InitOvfl /\ [][NextOvfl]_vars

\* Salvage reconciles the column-store leaf pages it read.
NextSlvg ==
    \/ Start
    \/ ColVarMissing
    \/ ColVarCell
    \/ ColVarRepeat
    \/ ColVarCellsDone
    \/ ColVarLast
    \/ ColVarSplit
    \/ ColVarCopy
    \/ ColVarFinish
    \/ ColFixSlvg
    \/ Wrapup

SpecSlvg == InitSlvg /\ [][NextSlvg]_vars

SpecInt == InitInt /\ [][NextInt]_vars

\* One reconciliation of a row-store internal page.
NextMerge ==
    \/ Start
    \/ RowIntEntry
    \/ RowMergeEntry
    \/ RowMergeReturn
    \/ RowIntSplit
    \/ RowIntCopy
    \/ RowIntFinish
    \/ Wrapup

SpecMerge == InitMerge /\ [][NextMerge]_vars

\* The reconciliations of Spec, and __rec_cell_build_key on its own.
SpecKeys == (Init \/ InitKey) /\ [][Next \/ BuildKey]_vars

SpecLife == InitLife /\ [][NextLife]_vars

(***************************************************************************)
(* The properties.                                                         *)
(***************************************************************************)
\* The chunks the current reconciliation passed to the block manager, and
\* those an earlier one did.
ChunksOf(run) == SelectSeq(blocks, LAMBDA b : b.kind = "page" /\ b.run = run)

RunChunks == ChunksOf(r.run)

\* A reconciliation of the page returned.
Reconciled == pc = "idle" /\ r.run > 0

OffOf(b) == [addr |-> b.addr, size |-> b.size]

\* C1: after a reconciliation the page's result is set by the number of
\* chunks written: none sets EMPTY; one sets REPLACE and write_off is the
\* chunk's (addr, size); two or more set SPLIT, write_split being an internal
\* page of the page's flavour with one reference per chunk, in order, each
\* on disk at the chunk's (addr, size).  One result flag is set, whatever
\* the result of the reconciliation before.
C1_ResultByBoundaries ==
    Reconciled =>
      LET n == Len(RunChunks)
          sp == page.write_split
      IN /\ r.bnd_next = n
         /\ n = 0 => page.flags = {"REC_EMPTY"}
         /\ n = 1 => /\ page.flags = {"REC_REPLACE"}
                     /\ page.write_off = OffOf(RunChunks[1])
         /\ n >= 2 =>
              /\ page.flags = {"REC_SPLIT"}
              /\ sp.type = IF IsRow(page.type) THEN "ROW_INT" ELSE "COL_INT"
              /\ sp.entries = n
              /\ Len(sp.refs) = n
              /\ \A i \in 1..n :
                   /\ sp.refs[i].state = "DISK"
                   /\ sp.refs[i].page = "NULL"
                   /\ [addr |-> sp.refs[i].addr, size |-> sp.refs[i].size]
                        = OffOf(RunChunks[i])

\* A second reconciliation split a page the first one had replaced.
C1_Witness ==
    /\ Reconciled
    /\ r.run = 2
    /\ Len(ChunksOf(1)) = 1
    /\ Len(RunChunks) >= 2
    /\ page.flags = {"REC_SPLIT"}

\* The body of a chunk as the writer built it: without the trailing key cell
\* __rec_split_write adds to a row-store leaf page.
BodyOf(b) ==
    IF b.type = "ROW_LEAF" THEN SubSeq(b.body, 1, Len(b.body) - 1) ELSE b.body

\* The cells that start in a body, and the records a body holds.
CellStarts(body) == {k \in 1..Len(body) : body[k][2] = 1}

RECURSIVE SumOver(_, _)
SumOver(f, S) ==
    IF S = {} THEN 0
    ELSE LET x == CHOOSE y \in S : TRUE IN f[x] + SumOver(f, S \ {x})

BodyRecords(body) ==
    SumOver([k \in 1..Len(body) |-> cells[body[k][1]].rle], CellStarts(body))

\* What the header of a chunk of the page's type counts in a body.
BodyEntries(b) ==
    IF b.type = "COL_FIX" THEN BodyRecords(BodyOf(b))
    ELSE Cardinality(CellStarts(BodyOf(b)))

\* The writer is done with the entries of the page.
Written == pc \in {"wrapup", "idle"} /\ r.run > 0

\* The cells (the records, on a fixed-length column-store page) the writer
\* emitted.
Emitted ==
    IF page.type = "COL_FIX"
    THEN SumOver([n \in 1..Len(cells) |-> cells[n].rle], 1..Len(cells))
    ELSE Len(cells)

\* C2: the entries field of the header of every chunk written, by the
\* fix-up, at a boundary once boundaries are no longer tracked, or by
\* __rec_split_finish, is the number of cells (of records, on a
\* fixed-length column-store page) in the chunk's body, and the entries of
\* the chunks of a reconciliation add up to the cells the writer emitted.
C2_HeaderEntries ==
    /\ \A i \in 1..Len(RunChunks) :
         RunChunks[i].entries = BodyEntries(RunChunks[i])
    /\ Written =>
         SumOver([i \in 1..Len(RunChunks) |-> RunChunks[i].entries],
                 1..Len(RunChunks)) = Emitted

\* Chunks were written by the fix-up, then at a boundary, then by
\* __rec_split_finish.
C2_Witness ==
    /\ Written
    /\ Len(RunChunks) >= 4
    /\ RunChunks[1].state = "SPLIT_MAX"
    /\ RunChunks[2].state = "SPLIT_MAX"
    /\ RunChunks[Len(RunChunks) - 1].state = "SPLIT_TRACKING_OFF"
    /\ \A i \in 1..Len(RunChunks) : RunChunks[i].entries > 0

\* The bytes of the cells the writer appended, in order.
RECURSIVE CellBytes(_)
CellBytes(n) ==
    IF n = 0 THEN <<>>
    ELSE CellBytes(n - 1) \o [j \in 1..cells[n].len |-> <<n, j>>]

RECURSIVE Bodies(_, _)
Bodies(chunks, n) ==
    IF n = 0 THEN <<>> ELSE Bodies(chunks, n - 1) \o BodyOf(chunks[n])

\* The bytes of the working buffer below first_free.
Pending == SubSeq(buf, 1, r.first_free - WT_PAGE_DISK_SIZE)

\* C3: the bodies of the chunks written, in boundary order and without the
\* trailing key cell of a row-store leaf page, followed by the bytes of the
\* working buffer below first_free, are the bytes the writer appended; once
\* the last chunk is written the bodies alone are these bytes.
C3_BytesPreserved ==
    r.run > 0 =>
      Bodies(RunChunks, Len(RunChunks)) \o (IF Written THEN <<>> ELSE Pending)
        = CellBytes(Len(cells))

\* The fix-up wrote the tracked chunks and moved a remnant, which was
\* written later.
C3_Witness ==
    /\ Written
    /\ Len(RunChunks) >= 3
    /\ RunChunks[1].state = "SPLIT_MAX"
    /\ RunChunks[2].state = "SPLIT_MAX"
    /\ RunChunks[3].state = "SPLIT_TRACKING_OFF"
    /\ Len(RunChunks[3].body) > 1
    /\ page.type = "COL_VAR"

\* The keys of the key cells of a chunk, and the key of its first cell.
ChunkKeys(b) ==
    {cells[BodyOf(b)[k][1]].key :
       k \in {j \in CellStarts(BodyOf(b)) :
                cells[BodyOf(b)[j][1]].ctype \in {"KEY", "KEY_OVFL"}}}

FirstKey(b) == cells[BodyOf(b)[1][1]].key

\* C4: when a row-store page splits, the promoted keys of the boundaries
\* are strictly increasing, and the promoted key of every boundary but the
\* first is greater than every key of the chunk before it and at most the
\* first key of its own chunk.
C4_PromotedKeys ==
    Written /\ IsRow(page.type) =>
      \A i \in 2..Len(RunChunks) :
        /\ KeyLess(r.bnd[i - 1].key, r.bnd[i].key)
        /\ \A k \in ChunkKeys(RunChunks[i - 1]) : KeyLess(k, r.bnd[i].key)
        /\ KeyLeq(r.bnd[i].key, FirstKey(RunChunks[i]))

\* A row-store leaf page split in three chunks or more, and suffix
\* compression shortened a promoted key.
C4_Witness ==
    /\ Written
    /\ page.type = "ROW_LEAF"
    /\ Len(RunChunks) >= 3
    /\ \E i \in 2..Len(RunChunks) :
         Len(r.bnd[i].key) < Len(FirstKey(RunChunks[i]))

\* C5: the chunks of a column-store page start at strictly increasing,
\* contiguous record numbers: the first at the page's starting record
\* number, every other one at its predecessor's starting record number plus
\* the records its predecessor holds (the run lengths of its cells, the
\* entries of a fixed-length page, the records below the references of an
\* internal page).
C5_ContiguousRecnos ==
    Written /\ ~IsRow(page.type) =>
      /\ Len(RunChunks) >= 1 => RunChunks[1].recno = page.recno
      /\ \A i \in 1..(Len(RunChunks) - 1) :
           /\ RunChunks[i + 1].recno
                = RunChunks[i].recno + BodyRecords(RunChunks[i].body)
           /\ RunChunks[i + 1].recno > RunChunks[i].recno

\* A variable-length column-store page with a run of two records or more
\* split in three chunks or more.
C5_Witness ==
    /\ Written
    /\ page.type = "COL_VAR"
    /\ Len(RunChunks) >= 3
    /\ BodyRecords(RunChunks[1].body) > Cardinality(CellStarts(RunChunks[1].body))

\* C6: in every state of a reconciliation first_free is inside the working
\* buffer, after the header, and first_free + space_avail is at most the
\* end of the maximum page; space_avail, an unsigned number, never wrapped
\* (a wrapped value is larger than any page).
C6_SpaceInsideBuffer ==
    r.run > 0 =>
      /\ WT_PAGE_DISK_SIZE <= r.first_free
      /\ r.first_free <= r.page_size
      /\ r.first_free + r.space_avail <= r.page_size
      /\ r.space_avail <= r.page_size - WT_PAGE_DISK_SIZE

\* The writer goes on after the fix-up that followed the move from
\* SPLIT_BOUNDARY to SPLIT_MAX, in what is left of a split-size chunk.
C6_Witness ==
    /\ pc = "fit"
    /\ r.bnd_state = "SPLIT_TRACKING_OFF"
    /\ r.split_size < r.page_size
    /\ Len(RunChunks) >= 2
    /\ RunChunks[1].state = "SPLIT_MAX"
    /\ r.first_free > WT_PAGE_DISK_SIZE
    /\ r.space_avail > 0

\* The chunks the fix-up wrote and those written after it.
AfterSplit(b) ==
    \/ b.state = "SPLIT_TRACKING_OFF"
    \/ b.state = "SPLIT_MAX" /\ Len(ChunksOf(b.run)) > 1

\* C7: a chunk passed to the block manager is at most page_size long, and
\* at most split_size long when the fix-up wrote it or it was written after
\* the fix-up; on a row-store leaf page the size counts the trailing key
\* cell every chunk ends with, and the cell is written inside the buffer.
C7_ChunkSizes ==
    /\ "split_write" \notin asserts
    /\ \A i \in 1..Len(RunChunks) :
         LET b == RunChunks[i]
         IN /\ b.size <= r.page_size
            /\ AfterSplit(b) => b.size <= r.split_size
            /\ b.size = WT_PAGE_DISK_SIZE + Len(b.body)
            /\ b.type = "ROW_LEAF" => b.body[Len(b.body)] = TrailingCell

\* A row-store leaf page: the fix-up wrote a chunk of split_size bytes, the
\* trailing key cell counted.
C7_Witness ==
    /\ Written
    /\ page.type = "ROW_LEAF"
    /\ r.split_size < r.page_size
    /\ \E i \in 1..Len(RunChunks) :
         /\ AfterSplit(RunChunks[i])
         /\ RunChunks[i].size = r.split_size

\* The bytes of the page: the header and the cells the writer emitted.
SerializedSize == WT_PAGE_DISK_SIZE + Len(CellBytes(Len(cells)))

\* C8: a page whose header and cells take page_size bytes exactly is
\* written as one chunk and replaces the page: one block, bnd_next = 1,
\* REPLACE, also when split_size < page_size and boundaries were tracked.
C8_ExactFit ==
    Reconciled /\ SerializedSize = r.page_size =>
      /\ Len(RunChunks) = 1
      /\ r.bnd_next = 1
      /\ page.flags = {"REC_REPLACE"}

\* The overflow blocks run n wrote for the source value src.
OvflWritten(n, src) ==
    {a \in 1..Len(blocks) : /\ blocks[a].kind = "ovfl"
                            /\ blocks[a].run = n
                            /\ blocks[a].src = src}

FreedAddrs == {freed[i] : i \in 1..Len(freed)}

\* The overflow value cells the run built (not copied from the disk image).
BuiltOvfl == {n \in 1..Len(cells) : /\ cells[n].ctype = "VALUE_OVFL"
                                    /\ cells[n].src # 0}

\* C9: an overflow value the first reconciliation wrote, built again by the
\* second from the same source value, is emitted with the (addr, size) of
\* the block the first wrote; the second writes no block for it, and the
\* block is not freed, by the discard that follows either.
C9_OverflowReuse ==
    Written /\ r.run = 2 =>
      \A n \in BuiltOvfl : \A a \in OvflWritten(1, cells[n].src) :
         /\ cells[n].off = OffOf(blocks[a])
         /\ OvflWritten(2, cells[n].src) = {}
         /\ blocks[a].addr \notin FreedAddrs

\* A second reconciliation reused the block of an overflow value.
C9_Reused ==
    /\ Reconciled /\ r.run = 2
    /\ \E n \in BuiltOvfl : \E a \in OvflWritten(1, cells[n].src) :
         /\ cells[n].off = OffOf(blocks[a])
         /\ OvflWritten(2, cells[n].src) = {}
         /\ blocks[a].addr \notin FreedAddrs
         /\ \A i \in 1..Len(track) : ~Discardable(track[i])

TrackSettled(t) == \A i \in 1..Len(t) : t[i].type \in {"OVFL", "EMPTY"}

Discarded ==
    /\ pc = "idle" /\ pc' = "idle"
    /\ freed' # freed \/ track' # track

\* How often address a is among the addresses appended to freed by the step.
FreedNow(a) ==
    Cardinality({n \in (Len(freed) + 1)..Len(freed') : freed'[n] = a})

\* The step processed the entries before entry k (all of them when k = 0):
\* one block_free for each BLOCK or OVFL_DISCARD entry among them, which
\* is EMPTY afterwards; every other entry is as it was.
DiscardedUpTo(k) ==
    LET done == IF k = 0 THEN 1..Len(track) ELSE 1..(k - 1)
        D == {i \in done : track[i].type \in {"BLOCK", "OVFL_DISCARD"}}
    IN /\ k # 0 => track[k].type \in {"BLOCK", "OVFL_DISCARD"}
       /\ Len(track') = Len(track)
       /\ \A i \in D : /\ track'[i].type = "EMPTY"
                       /\ track'[i].addr = WT_ADDR_INVALID
       /\ \A i \in (1..Len(track)) \ D : track'[i] = track[i]
       /\ Len(freed') = Len(freed) + Cardinality(D)
       /\ SubSeq(freed', 1, Len(freed)) = freed
       /\ \A i \in D :
            FreedNow(track[i].addr)
              = Cardinality({j \in D : track[j].addr = track[i].addr})

\* C11: processing the tracker frees the block of each BLOCK and
\* OVFL_DISCARD entry exactly once and resets the entry to EMPTY; OVFL and
\* EMPTY entries are untouched; when block_free fails the entries before
\* the failing one are processed and the failing one keeps its type.  The
\* start of a reconciliation demotes every OVFL entry to OVFL_DISCARD.
C11_DiscardTrack ==
    [][/\ Discarded => \E k \in 0..Len(track) : DiscardedUpTo(k)
       /\ (pc = "idle" /\ pc' # "idle") =>
             \A i \in 1..Len(track) :
                track[i].type = "OVFL" => track'[i].type = "OVFL_DISCARD"]_vars

\* After the second reconciliation block_free failed at an entry: the
\* overflow block the reconciliation did not ask for again was freed before
\* it, a BLOCK entry after it is still to free, a live overflow block is
\* tracked.
C11_Witness ==
    /\ Reconciled /\ r.run = 2
    /\ \E a \in 1..Len(blocks) : /\ blocks[a].kind = "ovfl"
                                  /\ blocks[a].run = 1
                                  /\ blocks[a].addr \in FreedAddrs
    /\ \E i \in 1..Len(track) : track[i].type = "BLOCK"
    /\ \E i \in 1..Len(track) : track[i].type = "OVFL"

\* The overflow cells of the page's original disk image.
OrigOvflCells ==
    CASE page.type = "ROW_LEAF" ->
           {page.rows[i].koff : i \in {j \in 1..Len(page.rows) :
                                        page.rows[j].kovfl}}
           \cup {page.rows[i].voff : i \in {j \in 1..Len(page.rows) :
                                        page.rows[j].vcell = "ovfl"}}
      [] page.type = "ROW_INT" ->
           {page.rows[i].koff : i \in {j \in 1..Len(page.rows) :
                                        page.rows[j].kcell}}
      [] page.type = "COL_VAR" /\ ~page.bulk ->
           {page.rows[i].off : i \in {j \in 1..Len(page.rows) :
                                       page.rows[j].cell = "ovfl"}}
      [] OTHER -> {}

\* The blocks of the page: its original disk block and overflow cells, and
\* every block the reconciliations of the page wrote.
PageBlocks ==
    OrigOvflCells
    \cup (IF page.bulk THEN {} ELSE {OrigPageOff})
    \cup {OffOf(blocks[a]) : a \in 1..Len(blocks)}

\* The blocks the output of the latest reconciliation references: its
\* chunks and the overflow blocks its cells point to.
OutputBlocks ==
    {OffOf(RunChunks[i]) : i \in 1..Len(RunChunks)}
    \cup {cells[n].off : n \in {m \in 1..Len(cells) :
                 cells[m].ctype \in {"KEY_OVFL", "VALUE_OVFL"}}}

\* The block is freed, or a tracker entry schedules it for free.
Scheduled(off) ==
    \/ off.addr \in FreedAddrs
    \/ \E i \in 1..Len(track) : /\ track[i].addr = off.addr
                                 /\ track[i].type \in {"BLOCK", "OVFL_DISCARD"}

\* C12: after a reconciliation every block of the page that its output does
\* not reference is freed or scheduled for free by the tracker: the
\* previous replacement block, the blocks of the previous split, the
\* original disk block, the original overflow cells no longer referenced
\* (these four by a BLOCK entry); no block is leaked.
C12_NoLeak ==
    Reconciled =>
      /\ \A off \in PageBlocks \ OutputBlocks : Scheduled(off)
      /\ \A off \in (OrigOvflCells \cup {OffOf(blocks[a]) :
                         a \in {b \in 1..Len(blocks) :
                                  blocks[b].kind = "page"}}) \ OutputBlocks :
            \/ off.addr \in FreedAddrs
            \/ \E i \in 1..Len(track) : /\ track[i].addr = off.addr
                                         /\ track[i].type = "BLOCK"

\* C13: a block the output of the latest reconciliation of the page
\* references (a chunk just written, an overflow block a copied or rebuilt
\* cell points to) was never passed to block_free, whatever reconciliations,
\* changes of the children and discards came before.
C13_NoLiveFree ==
    Reconciled => \A off \in OutputBlocks : off.addr \notin FreedAddrs

\* A record of a column-store page: deleted, or its bytes.
Rec(deleted, data) == [del |-> deleted, data |-> IF deleted THEN <<>> ELSE data]

\* The effective records of cell c of the disk image, whose first record is
\* record first: the update of the record if there is one, the original
\* value (deleted for a deleted or missing cell) otherwise.
CellRecords(c, first) ==
    [n \in 1..c.rle |->
       LET hits == {j \in 1..Len(c.upds) : c.upds[j].recno = first + n - 1}
       IN IF hits # {}
          THEN LET u == c.upds[CHOOSE j \in hits : TRUE]
               IN Rec(u.deleted, u.data)
          ELSE Rec(c.cell \in {"del", "null"}, c.data)]

RECURSIVE OrigRecords(_, _)
OrigRecords(p, i) ==
    IF i > Len(p.rows) THEN <<>>
    ELSE CellRecords(p.rows[i], CellRecno(p, i)) \o OrigRecords(p, i + 1)

\* The records of the append list from entry a on, recno being the first
\* record number not yet accounted for: a deleted record for every record
\* number skipped, then the appended record.
RECURSIVE AppendRecords(_, _, _)
AppendRecords(apps, a, recno) ==
    IF a > Len(apps) THEN <<>>
    ELSE IF apps[a].recno < recno THEN AppendRecords(apps, a + 1, recno)
    ELSE [j \in 1..(apps[a].recno - recno) |-> Rec(TRUE, <<>>)]
         \o <<Rec(apps[a].deleted, apps[a].data)>>
         \o AppendRecords(apps, a + 1, apps[a].recno + 1)

\* The effective record sequence of a variable-length column-store page.
EffectiveRecords ==
    IF page.bulk
    THEN [i \in 1..Len(page.rows) |-> Rec(FALSE, page.rows[i].data)]
    ELSE LET orig == OrigRecords(page, 1)
         IN orig \o AppendRecords(page.appends, 1, page.recno + Len(orig))

\* The bytes an overflow cell of the output points to: those of the block
\* of the original disk image, or of the block a reconciliation wrote.
OvflBytes(off) ==
    IF off.addr > Len(blocks)
    THEN LET c == CHOOSE c \in {page.rows[i] : i \in 1..Len(page.rows)} :
                     c.off = off
         IN c.data
    ELSE blocks[off.addr].body

\* The record an emitted cell of a variable-length column-store page holds.
CellValue(n) ==
    CASE cells[n].ctype = "DEL" -> Rec(TRUE, <<>>)
      [] cells[n].ctype = "VALUE_OVFL" -> Rec(FALSE, OvflBytes(cells[n].off))
      [] OTHER -> Rec(FALSE, cells[n].data)

\* The emitted cells from cell n on, each expanded by its run length.
RECURSIVE Expanded(_)
Expanded(n) ==
    IF n > Len(cells) THEN <<>>
    ELSE [j \in 1..cells[n].rle |-> CellValue(n)] \o Expanded(n + 1)

\* The last record number of the page: the largest appended one, or the
\* last of the original cells.
LastRecno ==
    IF page.bulk THEN page.recno + Len(page.rows) - 1
    ELSE IF page.appends # <<>> THEN page.appends[Len(page.appends)].recno
    ELSE CellRecno(page, Len(page.rows) + 1) - 1

\* A variable-length column-store page was written and not modified since.
ColVarWritten ==
    Written /\ page.type = "COL_VAR" /\ ~PageIsModified(page)

\* C14: the emitted cells of a variable-length column-store page, each
\* expanded by its run length, are the page's effective records in record
\* number order (the newest update of a record, else its original value; the
\* appended records at their record numbers; a deleted record for every
\* record number skipped before an appended one), and the run lengths add up
\* to the last record number minus the starting one plus one.
C14_RecordSequence ==
    ColVarWritten =>
      /\ Expanded(1) = EffectiveRecords
      /\ SumOver([n \in 1..Len(cells) |-> cells[n].rle], 1..Len(cells))
           = LastRecno - page.recno + 1

\* An emitted cell that is a verbatim copy of an overflow cell of the disk
\* image (it was not produced by a comparison).
IsRawCopy(n) == cells[n].ctype = "VALUE_OVFL" /\ cells[n].data = <<>>

\* The effective values two emitted cells were built from are equal: both
\* deleted, or both present with the same bytes.
SameValue(m, n) ==
    \/ cells[m].ctype = "DEL" /\ cells[n].ctype = "DEL"
    \/ /\ cells[m].ctype # "DEL" /\ cells[n].ctype # "DEL"
       /\ cells[m].data = cells[n].data

\* C15: the runs of a variable-length column-store page (regular or bulk)
\* are maximal: two adjacent emitted cells, neither of them a raw overflow
\* copy, never have equal effective values.
C15_MaximalRuns ==
    page.type = "COL_VAR" =>
      \A n \in 1..(Len(cells) - 1) :
         ~IsRawCopy(n) /\ ~IsRawCopy(n + 1) => ~SameValue(n, n + 1)

\* Equal records of two cells of the disk image were merged in one run, and
\* an updated record between equal records cut the run in three cells.
C15_Witness ==
    /\ Written /\ page.type = "COL_VAR" /\ ~page.bulk
    /\ Len(page.rows) >= 3
    /\ Len(cells) >= 3
    /\ cells[1].rle > page.rows[1].rle
    /\ cells[2].rle = 1
    /\ SameValue(1, 3)
    /\ \A n \in 1..3 : ~IsRawCopy(n)

\* The value of a record of a fixed-length column-store page: 0 for a record
\* number that was skipped.
FixValue(rec) == IF rec.del THEN 0 ELSE rec.data[1]

\* The records of a fixed-length column-store page from its starting record
\* number to the largest appended one: the entries of the disk image with
\* their updates, then the appended records and the gaps before them.
FixEffective ==
    LET orig == [k \in 1..Len(page.rows) |->
                   LET hits == {j \in 1..Len(page.upds) :
                                   page.upds[j].recno = page.recno + k - 1}
                   IN IF hits # {}
                      THEN page.upds[CHOOSE j \in hits : TRUE].data[1]
                      ELSE page.rows[k]]
        apps == AppendRecords(page.appends, 1, page.recno + Len(orig))
    IN orig \o [k \in 1..Len(apps) |-> FixValue(apps[k])]

\* Entry k (from 0) of the bit field of a written chunk, read at bit
\* k * bitcnt of the chunk's body; -1 for a bit no entry was set at.
ReadFix(b, k) ==
    LET bit == k * btree.bitcnt
        byte == b.body[(bit \div 8) + 1]
        pos == ((byte[2] - 1) * 8 + (bit % 8)) \div btree.bitcnt
        bits == cells[byte[1]].data
    IN IF pos < Len(bits) THEN bits[pos + 1] ELSE -1

\* The entries of the chunks from chunk i on, as their headers count them.
RECURSIVE ChunkRecords(_)
ChunkRecords(i) ==
    IF i > Len(RunChunks) THEN <<>>
    ELSE [k \in 1..RunChunks[i].entries |-> ReadFix(RunChunks[i], k - 1)]
         \o ChunkRecords(i + 1)

\* C16: the chunks written for a fixed-length column-store page hold, in
\* order and once each, every record from the page's starting record number
\* to the largest appended one: the original records with their updates, the
\* appended records with their values, 0 for every record number of a gap;
\* each chunk starts at the record number after its predecessor's last.
C16_FixRecords ==
    Written /\ page.type = "COL_FIX" /\ ~page.bulk =>
      /\ ChunkRecords(1) = FixEffective
      /\ \A i \in 1..Len(RunChunks) :
           RunChunks[i].recno = page.recno + Len(FixEffective)
                                           - Len(ChunkRecords(i))

\* The records of a gap and the appended record after it went to a second
\* chunk: the page was full.
C16_Witness ==
    /\ Written /\ page.type = "COL_FIX" /\ ~page.bulk
    /\ Len(RunChunks) >= 2
    /\ page.rows # <<>>
    /\ page.upds # <<>>
    /\ page.appends # <<>>
    /\ page.appends[1].recno > page.recno + Len(page.rows) + 1
    /\ RunChunks[2].entries >= 2

\* The entries (key, off) a row-store internal page is to emit for the
\* references refs from reference i on: nothing for an empty child, the
\* entries of the split page in the place of a split child, the first of
\* them under the key the parent has for the child.
RECURSIVE Entries(_, _)
RECURSIVE Inlined(_)
Entries(refs, i) ==
    IF i > Len(refs) THEN <<>>
    ELSE (CASE IsEmptyRef(refs[i]) -> <<>>
            [] IsSplitRef(refs[i]) -> Inlined(refs[i])
            [] OTHER -> <<[key |-> refs[i].key, off |-> RefOff(refs[i])]>>)
         \o Entries(refs, i + 1)

Inlined(ref) ==
    LET es == Entries(ref.child.refs, 1)
    IN IF es = <<>> THEN <<>>
       ELSE <<[es[1] EXCEPT !.key = ref.key]>> \o Tail(es)

\* The key of the j-th entry of the output is key; the 0th key of the page
\* may be cut to its first byte.
EntryKeyIs(j, key) ==
    \/ cells[2 * j - 1].key = key
    \/ j = 1 /\ cells[1].key = SubSeq(key, 1, 1)

\* C17: the output of a row-store internal page holds, in key order, an
\* entry for every child that is not empty and, in the place of a child in
\* SPLIT state, the entries of the child's split page; the first entry
\* emitted for a split page carries the key the parent has for the child.
C17_SplitInlined ==
    Written /\ page.type = "ROW_INT" /\ ~PageIsModified(page) =>
      LET exp == Entries(page.rows, 1)
      IN /\ Len(cells) = 2 * Len(exp)
         /\ \A j \in 1..Len(exp) :
              /\ cells[2 * j - 1].ctype \in {"KEY", "KEY_OVFL"}
              /\ EntryKeyIs(j, exp[j].key)
              /\ cells[2 * j].ctype = "OFF"
              /\ cells[2 * j].off = exp[j].off
         /\ \A j \in 1..(Len(exp) - 1) :
              KeyLess(cells[2 * j - 1].key, cells[2 * j + 1].key)

\* A split child between two children that are on disk: four entries, the
\* second under the parent's key for the split child, not under the 0th key
\* of the split page.
C17_Witness ==
    /\ Written /\ page.type = "ROW_INT"
    /\ Len(page.rows) = 3
    /\ IsSplitRef(page.rows[2])
    /\ Len(page.rows[2].child.refs) = 2
    /\ page.rows[1].state = "DISK" /\ page.rows[3].state = "DISK"
    /\ Len(cells) = 8
    /\ cells[3].key = page.rows[2].key
    /\ cells[3].key # page.rows[2].child.refs[1].key
    /\ cells[4].off = page.rows[2].child.refs[1].off

\* C18: the first key cell of the output of a row-store internal page holds
\* one byte of key, whether it is built from the key of the first child
\* emitted, from the key of a split child, or for a child whose key is an
\* overflow cell of the disk image; every later key is whole.
C18_ZerothKey ==
    Written /\ page.type = "ROW_INT" /\ ~PageIsModified(page) /\ cells # <<>> =>
      LET exp == Entries(page.rows, 1)
      IN /\ cells[1].ctype = "KEY"
         /\ Len(cells[1].key) = 1
         /\ cells[1].pfx + Len(cells[1].data) = 1
         /\ \A j \in 2..Len(exp) : cells[2 * j - 1].key = exp[j].key

\* The length of the longest common prefix of two keys.
CommonPrefix(a, b) ==
    CHOOSE p \in 0..Min(Len(a), Len(b)) :
       /\ SubSeq(a, 1, p) = SubSeq(b, 1, p)
       /\ p = Min(Len(a), Len(b)) \/ a[p + 1] # b[p + 1]

\* The cells of the chunk being built: those in the buffer from the start
\* of the chunk on.
ChunkStart ==
    IF r.bnd_state = "SPLIT_TRACKING_OFF" THEN WT_PAGE_DISK_SIZE
    ELSE Bnd(r, r.bnd_next).start

ChunkKeyCells ==
    {buf[k][1] : k \in (ChunkStart - WT_PAGE_DISK_SIZE + 1)
                       ..(r.first_free - WT_PAGE_DISK_SIZE)}
      \cap {n \in 1..Len(cells) : cells[n].ctype = "KEY"}

\* A key cell (not an overflow key) was built while prefix compression is
\* active.
KeyBuilt ==
    /\ pc \in {"fit", "built"} /\ IsRow(page.type)
    /\ r.k.info.ctype = "KEY"
    /\ r.key_pfx_compress

\* C19: a key cell built while prefix compression is active stores as its
\* prefix length the length of the longest common prefix of the key and of
\* the last key that is not an overflow key written to the chunk, at most
\* 255 and at most the length of either key, and that many bytes of the
\* last key followed by the bytes stored in the cell are the key.
C19_PrefixCompression ==
    KeyBuilt =>
      /\ r.run > 0 =>
           /\ ChunkKeyCells # {}
           /\ r.last = cells[CHOOSE n \in ChunkKeyCells :
                               \A m \in ChunkKeyCells : m <= n].key
      /\ r.k.info.pfx = Min(UINT8_MAX, CommonPrefix(r.k.info.key, r.last))
      /\ r.k.info.pfx <= Len(r.k.info.key) /\ r.k.info.pfx <= Len(r.last)
      /\ SubSeq(r.last, 1, r.k.info.pfx) \o r.k.info.data = r.k.info.key

\* The two keys share more than 255 bytes: the prefix stored is 255.
C19_Witness ==
    /\ KeyBuilt
    /\ CommonPrefix(r.k.info.key, r.last) > UINT8_MAX
    /\ r.k.info.pfx = UINT8_MAX
    /\ Len(r.k.info.data) = 2

\* The cells of a written chunk, in the order of the chunk's body.
ChunkCellSeq(b) ==
    LET body == BodyOf(b)
        starts == CellStarts(body)
        nth(k) == CHOOSE s \in starts : Cardinality({t \in starts : t < s}) = k - 1
    IN [k \in 1..Cardinality(starts) |-> cells[body[nth(k)][1]]]

\* The key cell is a full key: not an overflow key, no prefix compressed out.
IsFullKey(c) == c.ctype = "KEY" /\ c.pfx = 0

\* C20: the first key cell of every chunk written for a row-store page, the
\* chunks the fix-up writes at the boundaries tracked earlier included, is a
\* full key or an overflow key, and a key cell with a prefix compressed out
\* comes after a full key of the same chunk.
C20_FirstKeyFull ==
    \A i \in 1..Len(RunChunks) :
       IsRow(RunChunks[i].type) =>
         LET cs == ChunkCellSeq(RunChunks[i])
         IN /\ cs # <<>> => IsFullKey(cs[1]) \/ cs[1].ctype = "KEY_OVFL"
            /\ \A k \in 1..Len(cs) :
                 cs[k].ctype = "KEY" /\ cs[k].pfx > 0 =>
                    \E j \in 1..(k - 1) : IsFullKey(cs[j])

\* The fix-up wrote a chunk of a row-store leaf page that starts with a full
\* key sharing a prefix with the last key of the chunk before it, and has a
\* compressed key further on.
C20_Witness ==
    /\ Written /\ page.type = "ROW_LEAF"
    /\ \E i \in 2..Len(RunChunks) :
         LET cs == ChunkCellSeq(RunChunks[i])
             ps == ChunkCellSeq(RunChunks[i - 1])
         IN /\ RunChunks[i].state = "SPLIT_MAX"
            /\ IsFullKey(cs[1])
            /\ \E k \in 1..Len(ps) :
                 /\ ps[k].ctype = "KEY"
                 /\ CommonPrefix(ps[k].key, cs[1].key) > 0
            /\ \E k \in 2..Len(cs) : cs[k].ctype = "KEY" /\ cs[k].pfx > 0

\* The key cells the writer copied to the page so far, and the last of them.
KeyCells == {n \in 1..Len(cells) : cells[n].ctype \in {"KEY", "KEY_OVFL"}}

LastKeyCell == cells[CHOOSE n \in KeyCells : \A m \in KeyCells : m <= n]

\* The byte prefixes of a key, and the shortest of them greater than last.
Prefixes(key) == {SubSeq(key, 1, n) : n \in 0..Len(key)}

MinPrefix(cur, last) ==
    CHOOSE p \in Prefixes(cur) :
       /\ KeyLess(last, p)
       /\ \A q \in Prefixes(cur) : KeyLess(last, q) => Len(p) <= Len(q)

\* A step of a row-store writer that promotes a key at a new boundary, and
\* the key promoted.
Promotes == pc = "fit" /\ IsRow(page.type) /\ r'.bnd_next = r.bnd_next + 1

Promoted(rr) == Bnd(rr, rr.bnd_next).key

\* Suffix compression applies: a row-store leaf page, suffix compression
\* configured, and the key written last is not an overflow key.
SfxApplies ==
    /\ page.type = "ROW_LEAF"
    /\ btree.key_sfx_compress_conf
    /\ KeyCells # {} /\ LastKeyCell.ctype = "KEY"

\* C21: the key promoted at a boundary of a row-store leaf page, with
\* suffix compression configured and the key written last not an overflow
\* key, is the shortest byte prefix of the current key that is greater than
\* the key written last, and is never longer than the current key; on a
\* row-store internal page, with suffix compression off, or after an
\* overflow key, it is the whole current key.
C21_PromotedKey ==
    [][Promotes =>
         /\ Len(Promoted(r')) <= Len(r.k.info.key)
         /\ IF SfxApplies
            THEN Promoted(r') = MinPrefix(r.k.info.key, LastKeyCell.key)
            ELSE Promoted(r') = r.k.info.key]_vars

\* A key of two bytes or more was promoted, shorter than the current key,
\* which is an overflow key copied from the disk image.
C21_Witness ==
    /\ pc = "fit" /\ page.type = "ROW_LEAF"
    /\ r.bnd_next >= 1
    /\ r.key_sfx_compress
    /\ r.k.info.ctype = "KEY_OVFL" /\ w.disk_ovfl
    /\ Promoted(r) = MinPrefix(r.k.info.key, LastKeyCell.key)
    /\ Len(Promoted(r)) >= 2
    /\ Len(Promoted(r)) < Len(r.k.info.key)

\* __wt_rec_write returned an error.
Failed == pc = "error"

\* C22: when a reconciliation returns an error, at whatever step, the page
\* is still dirty after the call: its write generation differs from its
\* disk generation.
C22_DirtyAfterError == Failed => PageIsModified(page)

\* C23: once the disk generation was set to the write generation, a
\* modification of the page by another thread makes the write generation
\* greater than the disk generation, and it stays greater while the
\* reconciliation runs and when it completes: the page is dirty after it.
C23_DirtyAfterRace ==
    [][/\ pc \notin {"idle", "error"}
       /\ page'.write_gen > page.write_gen \/ PageIsModified(page)
       => /\ page'.write_gen > page'.disk_gen
          /\ PageIsModified(page')]_vars

\* A reconciliation completed and recorded its result, and the page is
\* dirty: another thread modified it meanwhile.
C23_Witness ==
    /\ Reconciled
    /\ page.flags \cap WT_PAGE_REC_MASK # {}
    /\ page.write_gen > page.disk_gen
    /\ r.run = 1

\* C25: the step that ends a successful reconciliation marks the parent of
\* a page that is not the root modified, with the result of the wrap-up
\* recorded in the page, and marks nothing for the root page; no other
\* step, the return of an error before or during the wrap-up included,
\* marks the parent.
C25_ParentMarked ==
    [][IF pc = "wrapup" /\ pc' = "idle"
       THEN /\ page'.flags \cap WT_PAGE_REC_MASK # {}
            /\ page'.parent_write_gen =
                  IF page.root THEN page.parent_write_gen
                  ELSE page.parent_write_gen + 1
       ELSE page'.parent_write_gen = page.parent_write_gen]_vars

\* The second reconciliation of a page that is not the root succeeded after
\* the first one failed: the parent was marked once.
C25_Witness ==
    /\ Reconciled
    /\ r.run = 2
    /\ ~page.root
    /\ page.parent_write_gen = 1

\* The sessions executing __wt_rec_write with the handle's reconciliation
\* structure, and those holding the handle read-locked.
Reconciling == {s \in Sessions : btree.sessions[s].at = "rec"}

ReadLocked == {s \in Sessions : s \in btree.dhandle.readers
                                /\ btree.sessions[s].at \in {"held", "rec"}}

\* C24: at most one reconciliation at a time uses the reconciliation
\* structure cached on a tree handle: two sessions that hold the handle
\* read-locked, as __wt_conn_btree_get returned it, never both execute
\* __wt_rec_write on it.
C24_OneReconciliation ==
    \A s, t \in Reconciling \cap ReadLocked : s = t

\* The chunks of the page written so far by the reconciliation that rr is
\* the state of, in a list of blocks.
PageChunks(bl, rr) ==
    SelectSeq(bl, LAMBDA b : b.kind = "page" /\ b.run = rr.run)

\* A step of the fix-up (__rec_split, case SPLIT_MAX), and a step that
\* ends the writer with __rec_split_finish.
FixupStep ==
    /\ pc \notin {"idle", "error"} /\ pc' = pc
    /\ r.bnd_state = "SPLIT_MAX" /\ r'.bnd_state = "SPLIT_TRACKING_OFF"

FinishStep == pc \notin {"idle", "error"} /\ pc' = "wrapup"

\* C26: a reconciliation starts with bnd_state SPLIT_TRACKING_OFF if and
\* only if the split size is the page size, as it always is for a
\* fixed-length column-store page, and with SPLIT_BOUNDARY otherwise; the
\* state then only moves from SPLIT_BOUNDARY to SPLIT_MAX and from
\* SPLIT_MAX to SPLIT_TRACKING_OFF; the fix-up runs at most once, before
\* any other chunk is written; and a chunk is written in the states
\* SPLIT_BOUNDARY and SPLIT_MAX by the fix-up or by __rec_split_finish only.
C26_SplitStates ==
    [][/\ pc \in {"idle", "error"} /\ pc' \in {"walk", "missing"} =>
            /\ r'.bnd_state = "SPLIT_TRACKING_OFF"
                  <=> r'.split_size = r'.page_size
            /\ r'.split_size # r'.page_size
                  => r'.bnd_state = "SPLIT_BOUNDARY"
            /\ page.type = "COL_FIX" => r'.split_size = r'.page_size
       /\ pc \notin {"idle", "error", "built"} =>
            /\ \/ r'.bnd_state = r.bnd_state
               \/ r.bnd_state = "SPLIT_BOUNDARY" /\ r'.bnd_state = "SPLIT_MAX"
               \/ r.bnd_state = "SPLIT_MAX"
                     /\ r'.bnd_state = "SPLIT_TRACKING_OFF"
            /\ FixupStep => PageChunks(blocks, r) = <<>>
            /\ /\ Len(PageChunks(blocks', r)) > Len(PageChunks(blocks, r))
               /\ r.bnd_state \in {"SPLIT_BOUNDARY", "SPLIT_MAX"}
               => FixupStep \/ FinishStep]_vars

\* The writer of a page whose split size is smaller than its page size is
\* done: the fix-up wrote chunks, and chunks were written after it.
C26_Witness ==
    /\ pc = "wrapup"
    /\ r.split_size < r.page_size
    /\ r.bnd_state = "SPLIT_TRACKING_OFF"
    /\ \E i, j \in 1..Len(RunChunks) :
         /\ i < j
         /\ RunChunks[i].state = "SPLIT_MAX"
         /\ RunChunks[j].state = "SPLIT_TRACKING_OFF"

\* The records salvage keeps of the records recs of a page: those after
\* the first skip, take of them, or all of them when take is 0.
Taken(recs, skip, take) ==
    SubSeq(recs, skip + 1,
           IF take = 0 THEN Len(recs) ELSE Min(Len(recs), skip + take))

\* A variable-length column-store page was written for salvage, no record
\* missing before it.
SlvgVarWritten ==
    ColVarWritten /\ w.slvg.on /\ w.slvg.missing = 0

\* C27: the output of a variable-length column-store page reconciled with
\* a salvage cookie {skip = s, take = t} holds the records s+1 .. s+t of
\* the page, all records after the first s when t = 0, also when a limit
\* falls inside an RLE cell; done is set once take is exhausted.
C27_SalvageVar ==
    SlvgVarWritten =>
      /\ Expanded(1) = Taken(EffectiveRecords, w.slvg.skip, w.slvg.take)
      /\ w.slvg.take # 0
            /\ Len(EffectiveRecords) >= w.slvg.skip + w.slvg.take
            => w.salvage.done

\* A fixed-length column-store page was written for salvage.
SlvgFixWritten ==
    Written /\ page.type = "COL_FIX" /\ w.slvg.on

\* C28: the output of a fixed-length column-store page reconciled with a
\* salvage cookie {missing = m, skip = s, take = t} is m zero records, then
\* the records s .. s+t-1 of the page (all records from s on when t = 0),
\* in order across the chunks written; no entry at or after the page's
\* entry count is read; the entries written are m plus the records taken.
C28_SalvageFix ==
    SlvgFixWritten =>
      LET taken == Taken(page.rows, w.slvg.skip, w.slvg.take)
      IN /\ ChunkRecords(1) = [j \in 1..w.slvg.missing |-> 0] \o taken
         /\ ~w.oob
         /\ SumOver([i \in 1..Len(RunChunks) |-> RunChunks[i].entries],
                    1..Len(RunChunks))
               = w.slvg.missing + Len(taken)

\* A step of a row-store writer that leaves in r->k an overflow key built
\* from an in-memory key, and the blocks the step wrote.
BuildsOvflKey ==
    /\ IsRow(page.type)
    /\ \/ pc = "walk" /\ pc' = "fit"
       \/ pc = "fit" /\ pc' = "fit" /\ r'.k # r.k
    /\ r'.k.info.ctype = "KEY_OVFL"
    /\ ~w'.disk_ovfl

NewBlocks == {blocks'[i] : i \in (Len(blocks) + 1)..Len(blocks')}

\* The overflow records of the tracker for keys: they have no reference.
KeyOvfl(t) == t.type = "OVFL" /\ t.ref = 0

\* A step that starts a reconciliation, and a call of
\* __wt_rec_discard_track in which no __wt_block_free fails.
StartStep == pc \in {"idle", "error"} /\ pc' \in {"walk", "missing"}

DiscardStep ==
    /\ pc = "idle" /\ pc' = "idle" /\ track' # track
    /\ \A i \in 1..Len(track') : ~Discardable(track'[i])

\* C29: a reconciliation that emits an overflow key built from an
\* in-memory key writes a new overflow block for it, whatever the tracker
\* holds, and tracks it; the start of the next reconciliation demotes the
\* tracked block (OVFL to OVFL_DISCARD) and the following discard frees it.
C29_OvflKeyRewritten ==
    [][/\ BuildsOvflKey =>
            /\ \E b \in NewBlocks :
                  /\ b.kind = "ovfl" /\ b.body = r'.k.info.key
                  /\ b.addr = r'.k.off.addr
                  /\ b.run = r.run
            /\ \A i \in 1..Len(track) : track[i].addr # r'.k.off.addr
            /\ \E i \in 1..Len(track') :
                  KeyOvfl(track'[i]) /\ track'[i].addr = r'.k.off.addr
       /\ StartStep =>
            \A i \in 1..Len(track) :
               KeyOvfl(track[i]) =>
                  track'[i] = [track[i] EXCEPT !.type = "OVFL_DISCARD"]
       /\ DiscardStep =>
            \A i \in 1..Len(track) :
               track[i].type = "OVFL_DISCARD" /\ track[i].ref = 0 =>
                  /\ track'[i].type = "EMPTY"
                  /\ \E j \in (Len(freed) + 1)..Len(freed') :
                        freed'[j] = track[i].addr]_vars

\* The second reconciliation of a page wrote the overflow key of an
\* inserted row again, in a new block, and the block the first one wrote
\* for the key was freed.
C29_Witness ==
    /\ Written /\ page.type = "ROW_LEAF" /\ r.run = 2
    /\ \E n \in 1..Len(cells), i \in 1..Len(blocks), j \in 1..Len(blocks) :
         /\ cells[n].ctype = "KEY_OVFL" /\ cells[n].off.addr = blocks[j].addr
         /\ blocks[i].kind = "ovfl" /\ blocks[i].run = 1
         /\ blocks[j].kind = "ovfl" /\ blocks[j].run = 2
         /\ blocks[i].body = blocks[j].body
         /\ blocks[i].body = cells[n].key
         /\ \E k \in 1..Len(freed) : freed[k] = blocks[i].addr
         /\ \A k \in 1..Len(freed) : freed[k] # blocks[j].addr

\* The page has no pending update, insert, delete or append: every entry
\* is an entry of its disk image, and the children of an internal page are
\* on disk.
Unmodified ==
    /\ ~page.bulk /\ ~w.slvg.on
    /\ page.appends = <<>>
    /\ CASE page.type = "ROW_LEAF" ->
              \A i \in 1..Len(page.rows) :
                 page.rows[i].src = "disk" /\ page.rows[i].upd = "none"
         [] page.type \in {"ROW_INT", "COL_INT"} ->
              \A i \in 1..Len(page.rows) : page.rows[i].state = "DISK"
         [] page.type = "COL_VAR" ->
              \A i \in 1..Len(page.rows) : page.rows[i].upds = <<>>
         [] OTHER -> page.upds = <<>>

\* The first reconciliation of an unmodified page is done.  The cells of
\* the disk image are cells the tree's configuration writes: none of them
\* was built again as an overflow item, and together they are a page of
\* the tree, the room for the trailing key cell of a row-store leaf page
\* included.
RoundTrip ==
    /\ Written /\ r.run = 1 /\ Unmodified
    /\ \A i \in 1..Len(blocks) : blocks[i].kind # "ovfl"
    /\ WT_PAGE_DISK_SIZE
         + SumOver([n \in 1..Len(cells) |-> cells[n].len], 1..Len(cells))
         + (IF page.type = "ROW_LEAF" THEN WT_TRAILING_KEY_CELL ELSE 0)
           <= r.page_size

\* The entries of the disk image of the page, as the cells of the output
\* hold them.
SameEntries ==
    CASE page.type = "ROW_LEAF" ->
           LET ks == SelectSeq(cells,
                        LAMBDA c : c.ctype \in {"KEY", "KEY_OVFL"})
               vs == SelectSeq(cells,
                        LAMBDA c : c.ctype \in {"VALUE", "VALUE_OVFL"})
               rv == SelectSeq(page.rows, LAMBDA row : row.vcell # "none")
           IN /\ Len(ks) = Len(page.rows) /\ Len(vs) = Len(rv)
              /\ \A i \in 1..Len(ks) :
                   /\ ks[i].key = page.rows[i].key
                   /\ (ks[i].ctype = "KEY_OVFL") = page.rows[i].kovfl
                   /\ page.rows[i].kovfl => ks[i].off = page.rows[i].koff
              /\ \A i \in 1..Len(vs) :
                   /\ (vs[i].ctype = "VALUE_OVFL") = (rv[i].vcell = "ovfl")
                   /\ rv[i].vcell = "ovfl" => vs[i].off = rv[i].voff
      [] page.type = "ROW_INT" ->
           /\ Len(cells) = 2 * Len(page.rows)
           /\ \A j \in 1..Len(page.rows) :
                /\ EntryKeyIs(j, page.rows[j].key)
                /\ cells[2 * j].off = RefOff(page.rows[j])
      [] page.type = "COL_INT" ->
           /\ Len(cells) = Len(page.rows)
           /\ \A j \in 1..Len(cells) : cells[j].off = RefOff(page.rows[j])
      [] page.type = "COL_VAR" -> Expanded(1) = EffectiveRecords
      [] OTHER -> ChunkRecords(1) = FixEffective

GetReturns(s) ==
    /\ \/ btree.sessions[s].at \in {"lock", "locked"}
       \/ /\ btree.sessions[s].at = "out" /\ ~btree.sessions[s].ref
          /\ btree'.sessions[s] # btree.sessions[s]
          /\ btree'.sessions[s].ret = "ENOMEM"
    /\ btree'.sessions[s].at \in {"held", "out"}

GetSucceeds(s) == GetReturns(s) /\ btree'.sessions[s].ret = "ok"

GetFails(s) == GetReturns(s) /\ btree'.sessions[s].ret # "ok"

\* C31: when __wt_conn_btree_get returns success, WT_DHANDLE_EXCLUSIVE is
\* set on the handle if and only if the caller asked for exclusive access,
\* whatever the flags of the request (lock-only requests included) and
\* whatever the handle was before (absent, closed, open).
C31_ExclusiveAsRequested ==
    [][\A s \in Sessions :
         GetSucceeds(s) =>
            btree'.dhandle.exclusive = btree.sessions[s].excl]_vars

\* A step of __wt_conn_btree_close by session s: the reference is dropped,
\* or the write lock is taken for the last one.
CloseStep(s) ==
    /\ \/ btree.sessions[s].at = "out" /\ btree.sessions[s].ref
       \/ btree.sessions[s].at = "closing"
    /\ btree'.sessions[s] # btree.sessions[s]
    /\ ~btree'.sessions[s].ref

OpenLockStep(s) ==
    /\ btree.sessions[s].at = "lock"
    /\ btree'.sessions[s] # btree.sessions[s]

\* __conn_dhandle_open_lock returns 0 to session s.
OpenLockSucceeds(s) ==
    OpenLockStep(s) /\ btree'.sessions[s].at = "locked"

\* __conn_dhandle_open_lock returns EBUSY to session s.
OpenLockBusyStep(s) ==
    OpenLockStep(s) /\ btree'.sessions[s].ret = "EBUSY"

\* C38: for a request without WT_DHANDLE_EXCLUSIVE __conn_dhandle_open_lock
\* returns 0 only with the handle open and read-locked by the caller, or
\* with the handle not open, write-locked by the caller and
\* WT_DHANDLE_EXCLUSIVE set; never with a read lock on a handle that is not
\* open.
C38_OpenLockShared ==
    [][\A s \in Sessions :
         OpenLockSucceeds(s) /\ ~btree.sessions[s].excl =>
            LET dh == btree'.dhandle
            IN /\ \/ /\ dh.open
                     /\ s \in dh.readers /\ dh.writer = 0
                  \/ /\ ~dh.open
                     /\ dh.writer = s /\ dh.readers = {}
                     /\ dh.exclusive
               /\ ~(s \in dh.readers /\ ~dh.open)]_vars

\* A request without exclusive access has the read lock of an open handle,
\* and another one the write lock of a handle that is not open.
C38_Witness ==
    \E s \in Sessions :
       /\ btree.sessions[s].at = "locked"
       /\ ~btree.sessions[s].excl
       /\ btree.sessions[s].found # "absent"
       /\ ~btree.sessions[s].nested
       /\ \/ btree.dhandle.open /\ s \in btree.dhandle.readers
          \/ ~btree.dhandle.open /\ btree.dhandle.writer = s

\* C39: __conn_dhandle_open_lock returns EBUSY exactly when exclusive access
\* is asked for and the write lock is not free, or when a request without
\* exclusive access finds a special flag set on the tree; a request for
\* exclusive access is settled in its first turn, and a caller that gets
\* EBUSY holds no lock.
C39_BusyExactly ==
    /\ [][\A s \in Sessions :
            OpenLockStep(s) =>
               LET dh == btree.dhandle
                   excl == btree.sessions[s].excl
               IN /\ btree'.sessions[s].ret = "EBUSY" <=>
                       \/ excl /\ ~(dh.readers = {} /\ dh.writer = 0)
                       \/ ~excl /\ dh.special
                  /\ excl => btree'.sessions[s].at # "lock"
                  /\ btree'.sessions[s].ret = "EBUSY" =>
                       /\ s \notin btree'.dhandle.readers
                       /\ btree'.dhandle.writer # s]_vars
    /\ [](\A s \in Sessions :
            btree.sessions[s].at = "lock" /\ btree.sessions[s].excl =>
               ENABLED ConnDhandleOpenLock(s))

\* Both kinds of EBUSY were returned: a session that asked for exclusive
\* access is out with EBUSY while another one holds the handle.
C39_Witness ==
    \E s \in Sessions, t \in Sessions :
       /\ s # t
       /\ btree.sessions[s].ret = "EBUSY"
       /\ btree.sessions[t].at = "held"
       /\ t \in btree.dhandle.readers

\* The reference count of the handle when the call of __wt_conn_btree_get
\* that session s is in, or is about to make, began.
RefcntBefore(s) ==
    IF btree.sessions[s].at = "out" THEN btree.dhandle.refcnt
    ELSE btree.sessions[s].refcnt0

\* C40: when __wt_conn_btree_get returns an error the caller holds no lock
\* of the handle, the lock of another session is not released, and the
\* reference count is what it was before the call.
C40_ErrorRestores ==
    [][\A s \in Sessions :
         GetFails(s) =>
            /\ s \notin btree'.dhandle.readers
            /\ btree'.dhandle.writer # s
            /\ btree'.dhandle.readers = btree.dhandle.readers \ {s}
            /\ btree'.dhandle.writer \in {btree.dhandle.writer, 0}
            /\ btree.dhandle.writer \notin {0, s} =>
                  btree'.dhandle.writer = btree.dhandle.writer
            /\ btree'.dhandle.refcnt = RefcntBefore(s)]_vars

\* C33: no block is passed to __wt_block_free more than once, whatever the
\* modifications, reconciliations and discards of the page; an original
\* overflow cell overridden by an update is freed once.
C33_NoDoubleFree ==
    \A i \in 1..Len(freed), j \in 1..Len(freed) :
       i # j => freed[i] # freed[j]

\* The emitted overflow value cell n was built from a value, and the block
\* it points to was not written for it: it was found in the tracker.
ReusedOvfl(n) ==
    /\ cells[n].ctype = "VALUE_OVFL"
    /\ cells[n].src # 0
    /\ cells[n].off.addr \in 1..Len(blocks)
    /\ \/ blocks[cells[n].off.addr].run < r.run
       \/ \E m \in 1..(n - 1) : /\ cells[m].ctype = "VALUE_OVFL"
                                /\ cells[m].off = cells[n].off

\* C34: an overflow value built with the block of a tracked overflow record
\* has the bytes that block holds, whichever page writer built it.
C34_ReusedBytes ==
    \A n \in 1..Len(cells) :
       ReusedOvfl(n) => blocks[cells[n].off.addr].body = cells[n].data

\* C35: __rec_track_ovfl_active never finds an entry that is OVFL already:
\* the WT_ASSERT of the lookup holds in every reconciliation.
C35_OneRequest == "track_ovfl_active" \notin asserts

\* The writer called __rec_split_finish with no entry in the buffer.
FinishedEmpty == pc = "wrapup" /\ r.entries = 0

C37_MergeKey ==
    Written /\ page.type = "ROW_INT" /\ ~PageIsModified(page) =>
      LET exp == Entries(page.rows, 1)
      IN /\ Len(cells) = 2 * Len(exp)
         /\ \A j \in 1..Len(exp) : EntryKeyIs(j, exp[j].key)
         /\ ~r.merge_ref.set

====
